---- MODULE Spec2Model ----
(***************************************************************************)
(* NexLedger: bank reconciliation and bank-feed import.                    *)
(*                                                                         *)
(* The model covers the SQLite tables cash_book, bank_statement_lines,     *)
(* reconciliation_matches, bank_undo and transactions, and the handlers    *)
(* that write them:                                                        *)
(*   pro/banking_suite.py   BankReconciliationTab.auto_match,              *)
(*                          confirm_matches, similarity                    *)
(*   pro/cash_book_tab.py   _save_manual_tx, _save_edit_entry, undo_last,  *)
(*                          match_selected_statement_lines,                *)
(*                          undo_last_match, push_undo, pop_undo           *)
(*   pro/reconcile_dialog.py on_reconcile_selected, on_unreconcile_selected*)
(*   pro/bank_feeds_tab.py  BankFeedsTab.save_transactions                 *)
(*   shared/db.py           db_connection, is_duplicate_transaction        *)
(*                                                                         *)
(* Representation.                                                         *)
(*   - A text value is a sequence of characters (one-character strings),   *)
(*     so that LOWER / str.lower and difflib work on its characters.       *)
(*   - A date text is a record: iso tells whether datetime.fromisoformat   *)
(*     accepts it, day is then its day ordinal.  BadDate stands for every  *)
(*     text (or NULL) that fromisoformat rejects.                          *)
(*   - Money is in cents.  Python computes with binary doubles; the one    *)
(*     place where that is visible, the subtraction compared against 0.01  *)
(*     in auto_match, is modelled by FloatDiffAboveCent.                   *)
(*   - A similarity score is the exact fraction num/den of                 *)
(*     2.0 * matches / (len(a) + len(b)).                                  *)
(***************************************************************************)
EXTENDS Integers, Sequences, FiniteSets, TLC

\* A nullable id is <<>> (NULL) or <<id>>.
NoId == <<>>
IdOf(i) == <<i>>

\* ------------------------------------------------------------------------
\* Bounds of the model
\* ------------------------------------------------------------------------
MaxCb == 2          \* cash_book rows ever inserted
MaxInitStmt == 1    \* statement lines in the database when the window opens
MaxStmt == 2        \* bank_statement_lines rows ever inserted
MaxMatches == 2     \* reconciliation_matches rows
MaxUndo == 2        \* bank_undo rows
MaxInitCb == 2      \* cash-book entries in the database auto_match is run on
MaxBatch == 2       \* transactions in one import batch
MaxTx == 3          \* rows of the transactions table

\* ------------------------------------------------------------------------
\* Text
\* ------------------------------------------------------------------------
\* Letters with an upper/lower pair inside ASCII, and one pair outside it
\* (E-acute, written as its code points).
UpperAscii ==
  << "A", "B", "C", "D", "E", "F", "G", "H", "I", "J", "K", "L", "M",
     "N", "O", "P", "Q", "R", "S", "T", "U", "V", "W", "X", "Y", "Z" >>
LowerAscii ==
  << "a", "b", "c", "d", "e", "f", "g", "h", "i", "j", "k", "l", "m",
     "n", "o", "p", "q", "r", "s", "t", "u", "v", "w", "x", "y", "z" >>
UCaseEacute == "U+00C9"
LCaseEacute == "U+00E9"

AsciiLowerOf(c) ==
  IF \E i \in 1..Len(UpperAscii) : UpperAscii[i] = c
  THEN LowerAscii[CHOOSE i \in 1..Len(UpperAscii) : UpperAscii[i] = c]
  ELSE c

\* str.lower(): Unicode lower-casing of one character.
PyLowerChar(c) == IF c = UCaseEacute THEN LCaseEacute ELSE AsciiLowerOf(c)

\* SQLite's built-in LOWER(): folds the ASCII letters only.
SqlLowerChar(c) == AsciiLowerOf(c)

PyLower(s) == [i \in 1..Len(s) |-> PyLowerChar(s[i])]
SqlLower(s) == [i \in 1..Len(s) |-> SqlLowerChar(s[i])]

\* ------------------------------------------------------------------------
\* difflib.SequenceMatcher(None, a, b).ratio(), no junk (autojunk only acts
\* on sequences of 200 or more elements).
\* ------------------------------------------------------------------------
Abs(x) == IF x >= 0 THEN x ELSE -x

\* Length of the common run starting at a[i], b[j] inside a[..ahi], b[..bhi]
\* (1-based, inclusive).
RECURSIVE RunLen(_, _, _, _, _, _)
RunLen(a, b, i, j, ahi, bhi) ==
  IF i > ahi \/ j > bhi THEN 0
  ELSE IF a[i] = b[j] THEN 1 + RunLen(a, b, i + 1, j + 1, ahi, bhi)
  ELSE 0

SetMax(S) == CHOOSE x \in S : \A y \in S : x >= y
SetMin(S) == CHOOSE x \in S : \A y \in S : x <= y

\* find_longest_match(alo, ahi, blo, bhi): the longest block; of the longest
\* blocks the one starting earliest in a, and of those earliest in b.
find_longest_match(a, b, alo, ahi, blo, bhi) ==
  LET size == [i \in alo..ahi |-> [j \in blo..bhi |-> RunLen(a, b, i, j, ahi, bhi)]]
      top == SetMax({size[i][j] : i \in alo..ahi, j \in blo..bhi})
      bi == SetMin({i \in alo..ahi : \E j \in blo..bhi : size[i][j] = top})
      bj == SetMin({j \in blo..bhi : size[bi][j] = top})
  IN  [i |-> bi, j |-> bj, size |-> top]

\* Sum of the sizes of get_matching_blocks(): the longest match, then the
\* same to its left and to its right.
RECURSIVE MatchingTotal(_, _, _, _, _, _)
MatchingTotal(a, b, alo, ahi, blo, bhi) ==
  IF alo > ahi \/ blo > bhi THEN 0
  ELSE LET m == find_longest_match(a, b, alo, ahi, blo, bhi)
       IN  IF m.size = 0 THEN 0
           ELSE m.size
                + MatchingTotal(a, b, alo, m.i - 1, blo, m.j - 1)
                + MatchingTotal(a, b, m.i + m.size, ahi, m.j + m.size, bhi)

ZeroScore == [num |-> 0, den |-> 1]
OneScore == [num |-> 1, den |-> 1]

\* similarity(a, b)
similarity(a, b) ==
  IF a = <<>> \/ b = <<>> THEN ZeroScore
  ELSE LET la == PyLower(a)
           lb == PyLower(b)
       IN  [num |-> 2 * MatchingTotal(la, lb, 1, Len(la), 1, Len(lb)),
            den |-> Len(la) + Len(lb)]

ScoreGT(x, y) == x.num * y.den > y.num * x.den

\* ------------------------------------------------------------------------
\* The descriptions and narrations of the rows in the database
\* ------------------------------------------------------------------------
DescAbcPty == <<"A", "B", "C", " ", "S", "U", "P", "P", "L", "I", "E", "S", " ", "P", "T", "Y">>
NarrAbc == <<"A", "B", "C", " ", "S", "u", "p", "p", "l", "i", "e", "s">>
DescAb == <<"a", "b">>
NarrAxy == <<"a", "x", "y">>
NarrAB == <<"A", "B">>
NarrAbx == <<"a", "b", "x">>

Texts == {DescAbcPty, NarrAbc, DescAb, NarrAxy, NarrAB, NarrAbx}

\* similarity on the texts above, each pair computed once.
ScoreTable == [a \in Texts, b \in Texts |-> similarity(a, b)]

\* ------------------------------------------------------------------------
\* Dates and money
\* ------------------------------------------------------------------------
IsoDate(d) == [iso |-> TRUE, day |-> d]
BadDate == [iso |-> FALSE, day |-> 0]

\* A difference of exactly one cent between two doubles is not always
\* <= 0.01 after the binary subtraction: 150.02 - 150.01 and
\* 149.99 - 149.98 give 0.010000000000019327, the other neighbouring pairs
\* of the amounts used here give 0.009999999999990905.  The pairs (absolute
\* value, in cents) whose difference rounds above 0.01:
RoundsAboveCent == {{15001, 15002}, {14998, 14999}}

CentTolerance == 1
DateWindow == 3
UnparsedDays == 999
ThresholdNum == 2
ThresholdDen == 5
Threshold == [num |-> ThresholdNum, den |-> ThresholdDen]

\* abs(c_amt - s_amt) > 0.01 on doubles.
FloatDiffAboveCent(c_amt, s_amt) ==
  LET d == Abs(c_amt - s_amt)
  IN  \/ d > CentTolerance
      \/ d = CentTolerance /\ {Abs(c_amt), Abs(s_amt)} \in RoundsAboveCent

\* float(c.get('debit') or 0) - float(c.get('credit') or 0); the columns
\* default to 0 and every writer stores a number.
NetAmount(c) == c.debit - c.credit

\* The date window: fromisoformat on both sides; any failure gives 999.
DaysApart(s_date, c_date) ==
  IF s_date.iso /\ c_date.iso THEN Abs(s_date.day - c_date.day) ELSE UnparsedDays

\* ------------------------------------------------------------------------
\* BankReconciliationTab.auto_match: the proposals
\* ------------------------------------------------------------------------
\* The rows of a table (a function from id to row) in rowid order, each with
\* its id, as a SELECT without ORDER BY returns them.
RECURSIVE RowsInIdOrder(_, _)
RowsInIdOrder(table, ids) ==
  IF ids = {} THEN <<>>
  ELSE LET m == CHOOSE x \in ids : \A y \in ids : x <= y
       IN  <<[id |-> m, row |-> table[m]]>> \o RowsInIdOrder(table, ids \ {m})

SelectUnmatchedStmts(lines) ==
  RowsInIdOrder(lines, {i \in DOMAIN lines : lines[i].matched_entry_id = NoId})

SelectUnreconciledCbs(book) ==
  RowsInIdOrder(book, {i \in DOMAIN book : book[i].reconciled = 0})

\* The eligibility tests with a date window one day too wide.
EligibleWindowOffByOne(s, c) ==
  /\ ~FloatDiffAboveCent(NetAmount(c.row), s.row.amount)
  /\ ~(DaysApart(s.row.tx_date, c.row.date) > DateWindow + 1)

\* The two `continue` tests of the inner loop.
Eligible(s, c) ==
  /\ ~FloatDiffAboveCent(NetAmount(c.row), s.row.amount)
  /\ ~(DaysApart(s.row.tx_date, c.row.date) > DateWindow)

\* similarity(s.get('description') or '', c.get('narration') or '')
PairScore(s, c) == ScoreTable[s.row.description, c.row.narration]

\* The inner loop over cbs from position k on, carrying best / best_score.
RECURSIVE BestCandidate(_, _, _, _)
BestCandidate(s, cbsq, k, acc) ==
  IF k > Len(cbsq) THEN acc
  ELSE LET c == cbsq[k]
           score == PairScore(s, c)
       IN  IF Eligible(s, c) /\ ScoreGT(score, acc.best_score)
           THEN BestCandidate(s, cbsq, k + 1, [best |-> IdOf(c.id), best_score |-> score])
           ELSE BestCandidate(s, cbsq, k + 1, acc)

NoBest == [best |-> NoId, best_score |-> ZeroScore]

\* `if best and best_score > 0.4`
Accepts(acc) == acc.best # NoId /\ ScoreGT(acc.best_score, Threshold)

\* The outer loop: stmt_matches, in statement order.
RECURSIVE ProposeMatches(_, _, _)
ProposeMatches(stmtsq, cbsq, k) ==
  IF k > Len(stmtsq) THEN <<>>
  ELSE LET s == stmtsq[k]
           acc == BestCandidate(s, cbsq, 1, NoBest)
           rest == ProposeMatches(stmtsq, cbsq, k + 1)
       IN  IF Accepts(acc)
           THEN <<[sid |-> s.id, cid |-> acc.best[1], score |-> acc.best_score]>> \o rest
           ELSE rest

\* ------------------------------------------------------------------------
\* The database and the handlers' state
\* ------------------------------------------------------------------------
VARIABLES
  cash_book,               \* id -> [date, account, narration, debit, credit, reconciled]
  bank_statement_lines,    \* id -> [tx_date, description, amount, matched_entry_id]
  reconciliation_matches,  \* rows in id order: [statement_line_id, cashbook_entry_id, match_score]
  bank_undo,               \* rows in id order: [action, cid, prev, was_reconciled, sid, selected]
  sqlite_sequence,         \* AUTOINCREMENT: the largest id ever given, per table
  transactions,            \* committed rows in id order: [date, description, amount]
  stmts,                   \* auto_match: the statement lines it read
  cbs,                     \* auto_match: the cash-book entries it read
  stmt_matches,            \* auto_match: the proposals shown to the user
  dialog,                  \* the message box the last handler ended with
  undone,                  \* what the last handler's undo of a match removed
  importer,                \* per application instance: save_transactions in progress
  write_lock,              \* SQLite's RESERVED lock: the instance with uncommitted writes
  threads,                 \* the BankFeedImportThread objects one BankFeedsTab has started
  probe,                   \* the last call of a parsing helper: [fn, arg, result]
  raw_bank_feeds,          \* ledger.db: rows in id order
  engine_out,              \* what the last import_csv_to_raw returned
  entry,                   \* one cash_book row as SQLite stores it: the columns' values
  edit_undo,               \* the bank_undo rows recorded for that row: [action, payload]
  import_preview,          \* CashBookTab.import_preview: the rows of the loaded statement
  journal_entries,         \* rows in id order: [date]
  journal_headers,         \* rows in id order: [total_debits, total_credits]
  journal_lines,           \* rows in id order: [journal_id, account_id, debit, credit]
  posted,                  \* the last call of a posting function: [fn, debits, credits, raised]
  scan                     \* parse_pdf at work: its lines, i, j and the transactions so far

vars == <<cash_book, bank_statement_lines, reconciliation_matches, bank_undo,
          sqlite_sequence, transactions, stmts, cbs, stmt_matches, dialog, undone,
          importer, write_lock, threads, probe, raw_bank_feeds, engine_out,
          entry, edit_undo, import_preview, journal_entries, journal_headers,
          journal_lines, posted, scan>>

recon_tables == <<cash_book, bank_statement_lines, reconciliation_matches>>
recon_vars == <<recon_tables, bank_undo, sqlite_sequence, stmts, cbs, stmt_matches,
                dialog, undone>>
import_vars == <<transactions, importer, write_lock>>
entry_vars == <<entry, edit_undo>>
journal_tables == <<journal_entries, journal_headers, journal_lines>>
other_vars == <<import_preview, journal_tables, posted, scan>>
more_vars == <<entry_vars, other_vars>>
feed_vars == <<threads, probe, raw_bank_feeds, engine_out, more_vars>>

\* Table helpers
EmptyTable == <<>>
InsertRow(table, id, row) ==
  [i \in DOMAIN table \cup {id} |-> IF i = id THEN row ELSE table[i]]
DeleteRows(table, ids) == [i \in DOMAIN table \ ids |-> table[i]]
\* UPDATE cash_book SET reconciled = v WHERE id = cid (no row: nothing happens)
SetReconciled(book, cid, v) ==
  [i \in DOMAIN book |-> IF i = cid THEN [book[i] EXCEPT !.reconciled = v] ELSE book[i]]
\* UPDATE bank_statement_lines SET matched_entry_id = cid WHERE id = sid
SetMatched(lines, sid, cid) ==
  [i \in DOMAIN lines |-> IF i = sid THEN [lines[i] EXCEPT !.matched_entry_id = IdOf(cid)]
                                       ELSE lines[i]]

\* The snapshot an 'edit_cashbook' payload carries (date, narration, debit, credit).
Snapshot(row) == [date |-> row.date, narration |-> row.narration,
                  debit |-> row.debit, credit |-> row.credit]
NoRow == [date |-> BadDate, narration |-> <<>>, debit |-> 0, credit |-> 0]
NoUndone == [lid |-> NoId, sids |-> {}, was_reconciled |-> 0]

\* ------------------------------------------------------------------------
\* push_undo / pop_undo (cash_book_tab.py)
\* ------------------------------------------------------------------------
\* The payload is kept as its fields; the texts of this model contain no
\* '|||'.  was_reconciled is a history field no handler reads: the
\* reconciled flag the matched entry had before a 'match' action.  sid is a
\* history field too: the id of the statement line a 'match' action inserted,
\* and so is selected: the cash-book entry of the ledger row the user had
\* selected for the match.
UndoRec(action, cid, prev, was, sid, selected) ==
  [action |-> action, cid |-> cid, prev |-> prev, was_reconciled |-> was, sid |-> sid,
   selected |-> selected]

\* A store with one slot: recording an action replaces what was recorded.
push_undo_single_slot(stack, rec) == <<rec>>

push_undo(stack, rec) == Append(stack, rec)

\* SELECT ... ORDER BY id DESC LIMIT 1, then DELETE of that row.
pop_undo(stack) == SubSeq(stack, 1, Len(stack) - 1)
TopUndo(stack) == stack[Len(stack)]

\* ------------------------------------------------------------------------
\* shared/db.py db_connection: `yield conn` then conn.close().  What the
\* block wrote is kept only if it called conn.commit(); close() discards an
\* open transaction.
\* ------------------------------------------------------------------------
\* A connection whose statements take effect as they run (autocommit).
db_connection_autocommit(before, after, committed) == after

db_connection(before, after, committed) == IF committed THEN after ELSE before

DbOf(book, lines, matches) == [book |-> book, lines |-> lines, matches |-> matches]
CurrentDb == DbOf(cash_book, bank_statement_lines, reconciliation_matches)

MatchRecord(sid, cid, score) ==
  [statement_line_id |-> sid, cashbook_entry_id |-> cid, match_score |-> score]

\* The apply loop with a MatchRecord kept per cash-book entry: the INSERT
\* replaces the records of the entry.
PairWriteReplacing(db, m, k) ==
  CASE k = 1 -> [db EXCEPT !.lines = SetMatched(db.lines, m.sid, m.cid)]
    [] k = 2 -> [db EXCEPT !.book = SetReconciled(db.book, m.cid, 1)]
    [] OTHER -> [db EXCEPT !.matches =
                   Append(SelectSeq(db.matches, LAMBDA r : r.cashbook_entry_id # m.cid),
                          MatchRecord(m.sid, m.cid, m.score))]

\* The k-th write (1..3) of one pair of the apply loop.
PairWrite(db, m, k) ==
  CASE k = 1 -> [db EXCEPT !.lines = SetMatched(db.lines, m.sid, m.cid)]
    [] k = 2 -> [db EXCEPT !.book = SetReconciled(db.book, m.cid, 1)]
    [] OTHER -> [db EXCEPT !.matches = Append(db.matches, MatchRecord(m.sid, m.cid, m.score))]

\* The first n statements of `for sid, cid, score in matches: UPDATE, UPDATE, INSERT`.
RECURSIVE ApplyWrites(_, _, _)
ApplyWrites(db, matches, n) ==
  IF n = 0 THEN db
  ELSE LET prev == ApplyWrites(db, matches, n - 1)
           pair == matches[((n - 1) \div 3) + 1]
       IN  PairWrite(prev, pair, ((n - 1) % 3) + 1)

\* A batch of writes inside `with db_connection() as conn`: fail_at = 0 means
\* every statement and the commit succeed; fail_at = k means statement k
\* raises (k = number of statements + 1: the commit raises).
RunBatch(db, matches, fail_at) ==
  LET n == 3 * Len(matches)
  IN  IF fail_at = 0 THEN db_connection(db, ApplyWrites(db, matches, n), TRUE)
      ELSE db_connection(db, ApplyWrites(db, matches, fail_at - 1), FALSE)

ResetAutoMatchLocals ==
  /\ stmts' = <<>>
  /\ cbs' = <<>>
  /\ stmt_matches' = <<>>

\* BankReconciliationTab.auto_match
AutoMatch ==
  LET s == SelectUnmatchedStmts(bank_statement_lines)
      c == SelectUnreconciledCbs(cash_book)
      m == ProposeMatches(s, c, 1)
  IN  /\ Len(reconciliation_matches) + Len(m) <= MaxMatches
      /\ stmts' = s
      /\ cbs' = c
      /\ stmt_matches' = m
      /\ undone' = NoUndone
      /\ UNCHANGED <<bank_undo, sqlite_sequence, import_vars, feed_vars>>
      /\ IF m = <<>>
         THEN /\ dialog' = "No matches found"
              /\ UNCHANGED recon_tables
         ELSE \E ok \in BOOLEAN, fail_at \in 0..(3 * Len(m) + 1) :
                IF ~ok
                THEN /\ fail_at = 0
                     /\ dialog' = "Confirm Auto Match: No"
                     /\ UNCHANGED recon_tables
                ELSE LET after == RunBatch(CurrentDb, m, fail_at)
                     IN  /\ dialog' = IF fail_at = 0 THEN "Matches applied"
                                                    ELSE "Error: auto_match"
                         /\ cash_book' = after.book
                         /\ bank_statement_lines' = after.lines
                         /\ reconciliation_matches' = after.matches

\* BankReconciliationTab.confirm_matches
MatchedPairs(lines) ==
  LET rows == RowsInIdOrder(lines, {i \in DOMAIN lines : lines[i].matched_entry_id # NoId})
  IN  [k \in 1..Len(rows) |->
         [sid |-> rows[k].id, cid |-> rows[k].row.matched_entry_id[1], score |-> OneScore]]

ConfirmMatches ==
  LET rows == MatchedPairs(bank_statement_lines)
  IN  /\ Len(reconciliation_matches) + Len(rows) <= MaxMatches
      /\ ResetAutoMatchLocals
      /\ undone' = NoUndone
      /\ UNCHANGED <<bank_undo, sqlite_sequence, import_vars, feed_vars>>
      /\ IF rows = <<>>
         THEN /\ dialog' = "No matches"
              /\ UNCHANGED recon_tables
         ELSE \E fail_at \in 0..(3 * Len(rows) + 1) :
                LET after == RunBatch(CurrentDb, rows, fail_at)
                IN  /\ dialog' = IF fail_at = 0 THEN "Confirmed"
                                               ELSE "Error: confirm_matches"
                    /\ cash_book' = after.book
                    /\ bank_statement_lines' = after.lines
                    /\ reconciliation_matches' = after.matches

\* ------------------------------------------------------------------------
\* CashBookTab (cash_book_tab.py): manual entries, edit, undo, manual match
\* ------------------------------------------------------------------------
Accounts == {1}
ManualDates == {IsoDate(12)}
ManualNarrations == {NarrAbc, NarrAxy}
ManualAmounts == {<<15000, 0>>}
\* Rows of the statement CSV loaded into the reconcile tab's left table.
LeftRows == {[tx_date |-> IsoDate(10), description |-> DescAbcPty, amount |-> 15000]}

CbRow(dt, account, narr, d, c, rec) ==
  [date |-> dt, account |-> account, narration |-> narr, debit |-> d, credit |-> c,
   reconciled |-> rec]

\* CashBookTab._save_manual_tx
SaveManualTx ==
  \E dt \in ManualDates, narr \in ManualNarrations, amt \in ManualAmounts, account \in Accounts :
    LET trans_id == sqlite_sequence.cash_book + 1
    IN  /\ trans_id <= MaxCb
        /\ Len(bank_undo) < MaxUndo
        /\ cash_book' = InsertRow(cash_book, trans_id, CbRow(dt, account, narr, amt[1], amt[2], 0))
        /\ sqlite_sequence' = [sqlite_sequence EXCEPT !.cash_book = trans_id]
        /\ bank_undo' = push_undo(bank_undo, UndoRec("insert_cashbook", trans_id, NoRow, 0, NoId, NoId))
        /\ dialog' = "Manual transaction added"
        /\ undone' = NoUndone
        /\ ResetAutoMatchLocals
        /\ UNCHANGED <<bank_statement_lines, reconciliation_matches, import_vars, feed_vars>>

\* CashBookTab._save_edit_entry (the dialog is opened on an existing row)
SaveEditEntry ==
  \E cid \in DOMAIN cash_book, dt \in ManualDates, narr \in ManualNarrations,
     amt \in ManualAmounts :
    LET prev == Snapshot(cash_book[cid])
    IN  /\ Len(bank_undo) < MaxUndo
        /\ bank_undo' = push_undo(bank_undo, UndoRec("edit_cashbook", cid, prev, 0, NoId, NoId))
        /\ cash_book' = [cash_book EXCEPT ![cid] =
                           [@ EXCEPT !.date = dt, !.narration = narr,
                                     !.debit = amt[1], !.credit = amt[2]]]
        /\ dialog' = "Cashbook entry edited"
        /\ undone' = NoUndone
        /\ ResetAutoMatchLocals
        /\ UNCHANGED <<bank_statement_lines, reconciliation_matches, sqlite_sequence,
                       import_vars, feed_vars>>

\* UPDATE cash_book SET date, narration, reference, debit, credit WHERE id = cid
RestoreRow(book, cid, prev) ==
  [i \in DOMAIN book |->
     IF i = cid THEN [book[i] EXCEPT !.date = prev.date, !.narration = prev.narration,
                                     !.debit = prev.debit, !.credit = prev.credit]
     ELSE book[i]]

\* CashBookTab.undo_last
UndoLast ==
  /\ undone' = NoUndone
  /\ ResetAutoMatchLocals
  /\ UNCHANGED <<bank_statement_lines, reconciliation_matches, sqlite_sequence, import_vars, feed_vars>>
  /\ IF bank_undo = <<>>
     THEN /\ dialog' = "Nothing to undo"
          /\ UNCHANGED <<cash_book, bank_undo>>
     ELSE LET rec == TopUndo(bank_undo)
          IN  /\ bank_undo' = pop_undo(bank_undo)
              /\ CASE rec.action = "insert_cashbook" ->
                        /\ cash_book' = DeleteRows(cash_book, {rec.cid})
                        /\ dialog' = "Last inserted cashbook entry removed"
                   [] rec.action = "edit_cashbook" ->
                        /\ cash_book' = RestoreRow(cash_book, rec.cid, rec.prev)
                        /\ dialog' = "Last edit reverted"
                   [] OTHER ->
                        /\ cash_book' = cash_book
                        /\ dialog' = "Unknown undo action"

\* SELECT id FROM cash_book WHERE date=? AND narration=? LIMIT 1: SQLite
\* scans the table in rowid order, so the first hit is the lowest id.
FindByDateNarration(book, rdate, narr) ==
  LET hits == {i \in DOMAIN book : book[i].date = rdate /\ book[i].narration = narr}
  IN  IF hits = {} THEN NoId ELSE IdOf(SetMin(hits))

\* CashBookTab.match_selected_statement_lines: left is the selected statement
\* row, sel the cash-book entry shown in the selected ledger row.
MatchSelected ==
  \E left \in LeftRows, sel \in DOMAIN cash_book :
    LET found == FindByDateNarration(cash_book, cash_book[sel].date, cash_book[sel].narration)
        lid == found[1]
        sid == sqlite_sequence.bank_statement_lines + 1
    IN  /\ found # NoId
        /\ sid <= MaxStmt
        /\ Len(bank_undo) < MaxUndo
        /\ bank_statement_lines' =
             InsertRow(bank_statement_lines, sid,
                       [tx_date |-> left.tx_date, description |-> left.description,
                        amount |-> left.amount, matched_entry_id |-> IdOf(lid)])
        /\ sqlite_sequence' = [sqlite_sequence EXCEPT !.bank_statement_lines = sid]
        /\ cash_book' = SetReconciled(cash_book, lid, 1)
        /\ bank_undo' = push_undo(bank_undo,
                                  UndoRec("match", lid, NoRow, cash_book[lid].reconciled,
                                          IdOf(sid), IdOf(sel)))
        /\ dialog' = "Matched"
        /\ undone' = NoUndone
        /\ ResetAutoMatchLocals
        /\ UNCHANGED <<reconciliation_matches, import_vars, feed_vars>>

\* CashBookTab.undo_last_match
UndoLastMatch ==
  /\ ResetAutoMatchLocals
  /\ UNCHANGED <<reconciliation_matches, sqlite_sequence, import_vars, feed_vars>>
  /\ IF bank_undo = <<>>
     THEN /\ dialog' = "Nothing to undo"
          /\ undone' = NoUndone
          /\ UNCHANGED <<cash_book, bank_statement_lines, bank_undo>>
     ELSE LET rec == TopUndo(bank_undo)
              gone == {i \in DOMAIN bank_statement_lines :
                         bank_statement_lines[i].matched_entry_id = IdOf(rec.cid)}
          IN  /\ bank_undo' = pop_undo(bank_undo)
              /\ IF rec.action = "match"
                 THEN /\ bank_statement_lines' = DeleteRows(bank_statement_lines, gone)
                      /\ cash_book' = SetReconciled(cash_book, rec.cid, 0)
                      /\ dialog' = "Last match undone"
                      /\ undone' = [lid |-> IdOf(rec.cid), sids |-> gone,
                                    was_reconciled |-> rec.was_reconciled]
                 ELSE /\ dialog' = "Last action not a match, cannot undo here"
                      /\ undone' = NoUndone
                      /\ UNCHANGED <<cash_book, bank_statement_lines>>

\* ------------------------------------------------------------------------
\* ReconcileDialog (reconcile_dialog.py)
\* ------------------------------------------------------------------------
\* load_open_entries: the rows the dialog lists
OpenEntries(book) == {i \in DOMAIN book : book[i].reconciled = 0}

\* ReconcileDialog.on_reconcile_selected, confirmed with Yes
OnReconcileSelected ==
  \E ids \in SUBSET OpenEntries(cash_book) :
    /\ ids # {}
    /\ cash_book' = [i \in DOMAIN cash_book |->
                       IF i \in ids THEN [cash_book[i] EXCEPT !.reconciled = 1]
                       ELSE cash_book[i]]
    /\ dialog' = "Done: marked reconciled"
    /\ undone' = NoUndone
    /\ ResetAutoMatchLocals
    /\ UNCHANGED <<bank_statement_lines, reconciliation_matches, bank_undo,
                   sqlite_sequence, import_vars, feed_vars>>

\* ReconcileDialog.on_unreconcile_selected, confirmed with Yes: the UPDATE
\* names the table `cashbook`, which no schema creates, so the statement
\* raises, the handler rolls back and reports the error.
OnUnreconcileSelected ==
  \E ids \in SUBSET OpenEntries(cash_book) :
    /\ ids # {}
    /\ dialog' = "Database error: unreconcile"
    /\ undone' = NoUndone
    /\ ResetAutoMatchLocals
    /\ UNCHANGED <<recon_tables, bank_undo, sqlite_sequence, import_vars, feed_vars>>

\* ------------------------------------------------------------------------
\* Bank-feed import: shared/db.py is_duplicate_transaction and
\* bank_feeds_tab.py BankFeedsTab.save_transactions
\* ------------------------------------------------------------------------
DescCafeLower == <<"c", "a", "f", LCaseEacute>>
DescCafeUpper == <<"C", "A", "F", UCaseEacute>>

Txn(d, desc, amt) == [date |-> IsoDate(d), description |-> desc, amount |-> amt]

\* The parsed transactions an import can contain.
ImportTxns ==
  { Txn(10, DescAb, 100), Txn(10, NarrAB, 200), Txn(10, DescCafeLower, 100) }

Batches == UNION {[1..n -> ImportTxns] : n \in 0..MaxBatch}

\* A duplicate check that looks at the most recent row only.
is_duplicate_of_last_row(committed, date, description) ==
  /\ committed # <<>>
  /\ committed[Len(committed)].date = date
  /\ SqlLower(committed[Len(committed)].description) = SqlLower(description)

\* SELECT 1 FROM transactions WHERE date=? AND LOWER(description)=LOWER(?) LIMIT 1
\* on a connection of its own: it reads the committed rows.
is_duplicate_transaction(committed, date, description) ==
  \E i \in 1..Len(committed) :
    /\ committed[i].date = date
    /\ SqlLower(committed[i].description) = SqlLower(description)

\* A commit that keeps a pending row only if no stored row has its key.
RECURSIVE CommitRowsIgnoringStored(_, _)
CommitRowsIgnoringStored(committed, pending) ==
  IF pending = <<>> THEN committed
  ELSE LET t == Head(pending)
       IN  CommitRowsIgnoringStored(
             IF is_duplicate_transaction(committed, t.date, t.description)
             THEN committed ELSE Append(committed, t),
             Tail(pending))

\* conn.commit(): the rows inserted on the connection become part of the table.
CommitRows(committed, pending) == committed \o pending

Instances == {1, 2}

\* pc, batch, k, pending, imported: the handler's position and locals.
\* result: the message box it ended with.  History fields, read by no
\* handler: passed (the keys that passed the duplicate check), raced (the
\* keys that passed it while the other instance had passed the same key and
\* not yet committed), repeat (see StartImport).
Idle == [pc |-> "idle", batch |-> <<>>, k |-> 1, pending |-> <<>>, imported |-> 0,
         passed |-> {}, raced |-> {}, repeat |-> FALSE, result |-> ""]

\* The duplicate filter's key of a transaction.
TxnKey(t) == <<t.date, SqlLower(t.description)>>

Other(p) == CHOOSE x \in Instances : x # p
InProgress(st) == st.pc \in {"loop", "insert"}

\* Rows the other running imports may still add (keeps the table within MaxTx).
Reserved(p) ==
  IF InProgress(importer[Other(p)]) THEN Len(importer[Other(p)].batch) ELSE 0

\* save_transactions is entered with the rows selected in the preview.
\* repeat is a history field: the same batch has been imported and
\* committed before this import starts.
StartImport(p) ==
  \E batch \in Batches :
    /\ importer[p].pc \in {"idle", "done"}
    /\ Len(transactions) + Reserved(p) + Len(batch) <= MaxTx
    /\ importer' = [importer EXCEPT ![p] =
                      [Idle EXCEPT !.pc = "loop", !.batch = batch,
                                   !.repeat = \E q \in Instances :
                                                /\ importer[q].result = "Success"
                                                /\ importer[q].batch = batch]]
    /\ UNCHANGED <<transactions, write_lock, recon_vars, feed_vars>>

\* `if is_duplicate_transaction(txn['date'], txn['description']): continue`
CheckDuplicate(p) ==
  LET st == importer[p]
      txn == st.batch[st.k]
  IN  /\ st.pc = "loop"
      /\ st.k <= Len(st.batch)
      /\ IF is_duplicate_transaction(transactions, txn.date, txn.description)
         THEN importer' = [importer EXCEPT ![p].k = st.k + 1]
         ELSE importer' = [importer EXCEPT
                             ![p].pc = "insert",
                             ![p].passed = st.passed \cup {TxnKey(txn)},
                             ![p].raced = IF /\ InProgress(importer[Other(p)])
                                             /\ TxnKey(txn) \in importer[Other(p)].passed
                                          THEN st.raced \cup {TxnKey(txn)}
                                          ELSE st.raced]
      /\ UNCHANGED <<transactions, write_lock, recon_vars, feed_vars>>

\* cur.execute("INSERT INTO transactions ..."): the first write of a
\* connection takes the database's write lock, which it keeps until commit.
InsertTxn(p) ==
  LET st == importer[p]
  IN  /\ st.pc = "insert"
      /\ write_lock \in {NoId, IdOf(p)}
      /\ write_lock' = IdOf(p)
      /\ importer' = [importer EXCEPT ![p].pc = "loop", ![p].k = st.k + 1,
                                      ![p].pending = Append(st.pending, st.batch[st.k]),
                                      ![p].imported = st.imported + 1]
      /\ UNCHANGED <<transactions, recon_vars, feed_vars>>

\* The INSERT while another connection holds the write lock: after the busy
\* timeout sqlite3 raises "database is locked"; `with conn` rolls back and
\* the handler shows the error.
InsertLocked(p) ==
  LET st == importer[p]
  IN  /\ st.pc = "insert"
      /\ write_lock \notin {NoId, IdOf(p)}
      /\ importer' = [importer EXCEPT ![p].pc = "done", ![p].pending = <<>>,
                                      ![p].imported = 0, ![p].result = "Error"]
      /\ UNCHANGED <<transactions, write_lock, recon_vars, feed_vars>>

\* conn.commit() after the loop
CommitImport(p) ==
  LET st == importer[p]
  IN  /\ st.pc = "loop"
      /\ st.k > Len(st.batch)
      /\ transactions' = CommitRows(transactions, st.pending)
      /\ write_lock' = IF write_lock = IdOf(p) THEN NoId ELSE write_lock
      /\ importer' = [importer EXCEPT ![p].pc = "done", ![p].result = "Success"]
      /\ UNCHANGED <<recon_vars, feed_vars>>

\* ------------------------------------------------------------------------
\* Bank-feed parsing helpers (BankFeedImportThread)
\* ------------------------------------------------------------------------
\* The text of a file cell is a sequence of one-character strings.
DigitChars == <<"0", "1", "2", "3", "4", "5", "6", "7", "8", "9">>

DigitSet == {DigitChars[i] : i \in 1..10}

IsDigit(c) == c \in DigitSet

DigitValue(c) == (CHOOSE i \in 1..10 : DigitChars[i] = c) - 1

RECURSIVE DigitsValue(_)
DigitsValue(s) ==
  IF s = <<>> THEN 0
  ELSE 10 * DigitsValue(SubSeq(s, 1, Len(s) - 1)) + DigitValue(s[Len(s)])

Whitespace == {" ", "\t"}

\* str.strip()
RECURSIVE lstrip(_)
lstrip(s) == IF s # <<>> /\ Head(s) \in Whitespace THEN lstrip(Tail(s)) ELSE s

RECURSIVE rstrip(_)
rstrip(s) ==
  IF s # <<>> /\ s[Len(s)] \in Whitespace THEN rstrip(SubSeq(s, 1, Len(s) - 1)) ELSE s

strip(s) == rstrip(lstrip(s))

\* str.replace(old, new) for a one-character old; new is a text
RECURSIVE replace(_, _, _)
replace(s, old, new) ==
  IF s = <<>> THEN <<>>
  ELSE (IF Head(s) = old THEN new ELSE <<Head(s)>>) \o replace(Tail(s), old, new)

\* str.count(c)
count(s, c) == Cardinality({i \in 1..Len(s) : s[i] = c})

\* A float as the decimal it was read from: num / 10^scale, without trailing
\* zeros in the fraction, so that equal values are equal records.  The texts
\* of the model have at most nine digits, which a double keeps apart.
RECURSIVE Number(_, _)
Number(num, scale) ==
  IF scale > 0 /\ num % 10 = 0 THEN Number(num \div 10, scale - 1)
  ELSE [num |-> num, scale |-> scale]

Zero == [num |-> 0, scale |-> 0]

NoFloat == [ok |-> FALSE, value |-> Zero]

\* float() of an unsigned text: digits with at most one '.', at least one
\* digit; everything else raises ValueError.
unsigned_float(body, sign) ==
  LET dots == {i \in 1..Len(body) : body[i] = "."}
  IN  IF /\ \A i \in 1..Len(body) : body[i] \in DigitSet \/ body[i] = "."
         /\ Cardinality(dots) <= 1
         /\ \E i \in 1..Len(body) : body[i] \in DigitSet
      THEN [ok |-> TRUE,
            value |-> Number(sign * DigitsValue(SelectSeq(body, IsDigit)),
                             IF dots = {} THEN 0 ELSE Len(body) - SetMax(dots))]
      ELSE NoFloat

\* float(s) on a text of digits, '.' and '-' (what the re.sub of parse_amount
\* leaves): an optional leading '-' and an unsigned text.
float(s) ==
  IF s # <<>> /\ Head(s) = "-" THEN unsigned_float(Tail(s), 0 - 1)
  ELSE unsigned_float(s, 1)

\* A cell that is None
None == <<"None">>

KeptByReSub(c) == c \in DigitSet \/ c = "." \/ c = "-"

\* ',' is a thousands separator next to a '.', the decimal separator alone
separators(s_clean) ==
  IF count(s_clean, ".") > 0 /\ count(s_clean, ",") > 0
    THEN replace(s_clean, ",", <<>>)
  ELSE IF count(s_clean, ",") > 0 /\ count(s_clean, ".") = 0
    THEN replace(s_clean, ",", <<".">>)
  ELSE s_clean

float_or_zero(f) == IF f.ok THEN f.value ELSE Zero

parse_amount(amount_str) ==
  IF amount_str = None THEN Zero
  ELSE IF strip(amount_str) = <<>> THEN Zero
  ELSE float_or_zero(
         float(SelectSeq(separators(replace(strip(amount_str), " ", <<>>)),
                         KeptByReSub)))

\* datetime.strptime.  A format is a sequence of the directives "%d", "%m",
\* "%Y" and literal characters.  _strptime turns it into a regular
\* expression, %d -> (3[0-1]|[1-2]\d|0[1-9]|[1-9]| [1-9]),
\* %m -> (1[0-2]|0[1-9]|[1-9]), %Y -> (\d\d\d\d), matches it at the start of
\* the text with the alternatives tried in that order, refuses a text the
\* match does not use up, and then builds the date, which refuses a day the
\* month does not have and the year 0.
NoMatch == [ok |-> FALSE, end |-> 0, d |-> 0, m |-> 0, Y |-> 0]

NumAt(s, i, n) == DigitsValue(SubSeq(s, i, i + n - 1))

DayTwoDigits(s, i) ==
  /\ i + 1 <= Len(s) /\ s[i] \in DigitSet /\ s[i + 1] \in DigitSet
  /\ \/ s[i] = "3" /\ s[i + 1] \in {"0", "1"}
     \/ s[i] \in {"1", "2"}
     \/ s[i] = "0" /\ s[i + 1] # "0"

MonthTwoDigits(s, i) ==
  /\ i + 1 <= Len(s) /\ s[i] \in DigitSet /\ s[i + 1] \in DigitSet
  /\ \/ s[i] = "1" /\ s[i + 1] \in {"0", "1", "2"}
     \/ s[i] = "0" /\ s[i + 1] # "0"

OneDigit(s, i) == i <= Len(s) /\ s[i] \in DigitSet /\ s[i] # "0"

\* The first of two reads that succeeded
first_ok(a, b) == IF a.ok THEN a ELSE b

\* format_regex.match(s): directive k of the format at position i
RECURSIVE re_match(_, _, _, _, _)
re_match(s, i, fmt, k, got) ==
  IF k > Len(fmt) THEN [got EXCEPT !.ok = TRUE, !.end = i - 1]
  ELSE
    CASE fmt[k] = "%d" ->
           first_ok(
             IF DayTwoDigits(s, i)
               THEN re_match(s, i + 2, fmt, k + 1, [got EXCEPT !.d = NumAt(s, i, 2)])
               ELSE NoMatch,
             first_ok(
               IF OneDigit(s, i)
                 THEN re_match(s, i + 1, fmt, k + 1, [got EXCEPT !.d = NumAt(s, i, 1)])
                 ELSE NoMatch,
               IF i <= Len(s) /\ s[i] = " " /\ OneDigit(s, i + 1)
                 THEN re_match(s, i + 2, fmt, k + 1, [got EXCEPT !.d = NumAt(s, i + 1, 1)])
                 ELSE NoMatch))
      [] fmt[k] = "%m" ->
           first_ok(
             IF MonthTwoDigits(s, i)
               THEN re_match(s, i + 2, fmt, k + 1, [got EXCEPT !.m = NumAt(s, i, 2)])
               ELSE NoMatch,
             IF OneDigit(s, i)
               THEN re_match(s, i + 1, fmt, k + 1, [got EXCEPT !.m = NumAt(s, i, 1)])
               ELSE NoMatch)
      [] fmt[k] = "%Y" ->
           IF i + 3 <= Len(s) /\ \A j \in i..(i + 3) : s[j] \in DigitSet
             THEN re_match(s, i + 4, fmt, k + 1, [got EXCEPT !.Y = NumAt(s, i, 4)])
             ELSE NoMatch
      [] OTHER ->
           IF i <= Len(s) /\ s[i] = fmt[k]
             THEN re_match(s, i + 1, fmt, k + 1, got)
             ELSE NoMatch

IsLeap(y) == y % 4 = 0 /\ (y % 100 # 0 \/ y % 400 = 0)

DaysInMonth(y, m) ==
  CASE m \in {4, 6, 9, 11} -> 30
    [] m = 2 -> IF IsLeap(y) THEN 29 ELSE 28
    [] OTHER -> 31

NoDate == [ok |-> FALSE, Y |-> 0, m |-> 0, d |-> 0]

\* datetime(year, month, day)
datetime(y, m, d) ==
  IF y >= 1 /\ m \in 1..12 /\ d >= 1 /\ d <= DaysInMonth(y, m)
    THEN [ok |-> TRUE, Y |-> y, m |-> m, d |-> d]
    ELSE NoDate

\* The date of a match that used up the text
matched_date(found, len) ==
  IF found.ok /\ found.end = len
    THEN datetime(found.Y, found.m, found.d)
    ELSE NoDate

strptime(s, fmt) == matched_date(re_match(s, 1, fmt, 1, NoMatch), Len(s))

Digits(n, width) ==
  [i \in 1..width |-> DigitChars[((n \div (10 ^ (width - i))) % 10) + 1]]

\* The C library whose strftime the interpreter calls
Libcs == {"glibc", "padding"}

YearWidth(y) == IF y >= 1000 THEN 4 ELSE IF y >= 100 THEN 3 ELSE IF y >= 10 THEN 2 ELSE 1

\* strftime('%Y-%m-%d'): %m and %d are two digits; %Y is the year as the C
\* library prints it, which glibc does without leading zeros.
strftime(dt, libc) ==
  Digits(dt.Y, IF libc = "glibc" THEN YearWidth(dt.Y) ELSE 4)
    \o <<"-">> \o Digits(dt.m, 2) \o <<"-">> \o Digits(dt.d, 2)

fmts ==
  << <<"%d", "/", "%m", "/", "%Y">>,
     <<"%Y", "-", "%m", "-", "%d">>,
     <<"%d", "-", "%m", "-", "%Y">>,
     <<"%Y", "%m", "%d">>,
     <<"%d", "%m", "%Y">>,
     <<"%d", ".", "%m", ".", "%Y">>,
     <<"%m", "/", "%d", "/", "%Y">> >>

FmtYmd == <<"%Y", "%m", "%d">>

\* re.search(r'(\d{8})', s): the leftmost run of eight digits
EightDigitStarts(s) ==
  {i \in 1..Len(s) : i + 7 <= Len(s) /\ \A j \in i..(i + 7) : s[j] \in DigitSet}

RECURSIVE try_formats(_, _, _)
try_formats(s, formats, k) ==
  IF k > Len(formats) THEN NoDate
  ELSE first_ok(strptime(s, formats[k]), try_formats(s, formats, k + 1))

no_eight_digits(s) == NoDate

\* The first run of eight digits read as %Y%m%d
eight_digits(s) ==
  IF EightDigitStarts(s) = {} THEN NoDate
  ELSE strptime(SubSeq(s, SetMin(EightDigitStarts(s)), SetMin(EightDigitStarts(s)) + 7),
                FmtYmd)

formatted_or(dt, today, libc) == IF dt.ok THEN strftime(dt, libc) ELSE today

\* today is datetime.now().strftime('%Y-%m-%d')
parse_date(date_str, today, libc) ==
  IF date_str = <<>> THEN today
  ELSE formatted_or(first_ok(try_formats(strip(date_str), fmts, 1),
                             eight_digits(strip(date_str))),
                    today, libc)

\* ------------------------------------------------------------------------
\* Calls of the parsing helpers on cell texts
\* ------------------------------------------------------------------------
Today == <<"2", "0", "2", "6", "-", "1", "1", "-", "0", "4">>

NoProbe ==
  [fn |-> "none", arg |-> <<>>, libc |-> "", amount |-> Zero, date |-> <<>>,
   raised |-> FALSE, transactions |-> <<>>]

\* Amount cells: a currency prefix or sign, an integer part written with or
\* without a thousands separator, and a fraction after '.' or ','; and cells
\* that are no number.
AmountPrefixes ==
  {<<>>,
   <<"R", " ">>,
   <<"-">>,
   <<" ", "R", " ">>}

AmountIntegers ==
  {<<"1", ",", "2", "3", "4">>,
   <<"1", ".", "2", "3", "4">>,
   <<"1", "2", "3", "4">>,
   <<"1", " ", "2", "3", "4">>,
   <<"0">>}

AmountFractions ==
  {<<>>,
   <<".", "5", "6">>,
   <<",", "5", "6">>,
   <<".", "5">>}

OddAmounts ==
  {<<>>,
   <<" ">>,
   <<"a", "b", "c">>,
   <<"-">>,
   <<"1", "-", "2">>,
   <<"1", ".", "2", ".", "3">>,
   <<"(", "5", "0", ".", "0", "0", ")">>,
   <<".", "5">>,
   <<"-", "-", "5">>}

AmountCells ==
  {p \o n \o f : p \in AmountPrefixes, n \in AmountIntegers, f \in AmountFractions}
    \cup {p \o n \o f \o <<" ">> : p \in {<<" ", "R", " ">>}, n \in {<<"1", " ", "2", "3", "4">>}, f \in {<<".", "5", "6">>}}
    \cup OddAmounts \cup {None}

\* Date cells: day, month and year in the orders and with the separators of
\* the formats, months and days that do not exist, and cells that are no date.
DayTexts == {<<"3", "1">>,
   <<"0", "1">>,
   <<"1">>,
   <<"2", "9">>}

MonthTexts == {<<"0", "1">>,
   <<"0", "2">>,
   <<"2">>,
   <<"1", "3">>}

YearTexts == {<<"2", "0", "2", "5">>,
   <<"2", "0", "2", "4">>}

Separators == {<<"/">>,
   <<"-">>,
   <<".">>,
   <<>>}

OddDates ==
  {<<>>,
   <<" ">>,
   <<"n", "/", "a">>,
   <<"2", "0", "2", "5", "0", "1", "3", "1", "1", "2", "0", "0", "0", "0">>,
   <<"r", "e", "f", " ", "2", "0", "2", "5", "0", "1", "3", "1">>,
   <<" ", "3", "1", "/", "0", "1", "/", "2", "0", "2", "5", " ">>,
   <<"3", "1", "/", "0", "1", "/", "2", "5">>,
   <<"2", "0", "2", "5", "/", "0", "1", "/", "3", "1">>,
   <<"2", "0", "2", "5", "1", "3", "4", "0">>,
   <<"0", "0", "0", "0", "-", "0", "1", "-", "0", "1">>}

DateCells ==
  {d \o sep \o m \o sep \o y : d \in DayTexts, m \in MonthTexts, y \in YearTexts, sep \in Separators}
    \cup {y \o sep \o m \o sep \o d : d \in DayTexts, m \in MonthTexts, y \in YearTexts, sep \in Separators}
    \cup OddDates

\* What the helpers return for each cell
AmountOf == [cell \in AmountCells |-> parse_amount(cell)]

DateOf == [cell \in DateCells, libc \in Libcs |-> parse_date(cell, Today, libc)]

ParseAmountCall ==
  /\ \E cell \in AmountCells :
       probe' = [NoProbe EXCEPT !.fn = "parse_amount", !.arg = cell,
                                !.amount = AmountOf[cell]]
  /\ UNCHANGED <<recon_vars, import_vars, threads, raw_bank_feeds, engine_out, more_vars>>

ParseDateCall ==
  /\ \E cell \in DateCells, libc \in Libcs :
       probe' = [NoProbe EXCEPT !.fn = "parse_date", !.arg = cell, !.libc = libc,
                                !.date = DateOf[cell, libc]]
  /\ UNCHANGED <<recon_vars, import_vars, threads, raw_bank_feeds, engine_out, more_vars>>

\* ------------------------------------------------------------------------
\* The parsers of the import worker
\* ------------------------------------------------------------------------
TxnTypeZeroIncome(amount) == IF amount.num >= 0 THEN "Income" ELSE "Expense"

TxnType(amount) == IF amount.num > 0 THEN "Income" ELSE "Expense"

RawTransaction(date, description, amount) ==
  [date |-> date, description |-> description, amount |-> amount,
   type |-> TxnType(amount)]

Returned(txns) == [raised |-> FALSE, transactions |-> txns]

Raised == [raised |-> TRUE, transactions |-> <<>>]

\* x or y of two cells
Or(x, y) == IF x = None \/ x = <<>> THEN y ELSE x

\* parse_csv of a file with the header Date,Description,Amount: DictReader
\* yields one row per data line, a cell the line does not have is None.
\* open() raises when the file cannot be read.
csv_transaction(row, today, libc) ==
  RawTransaction(parse_date(Or(row.Date, row.Date), today, libc),
                 strip(Or(row.Description, <<>>)),
                 parse_amount(Or(row.Amount, <<>>)))

parse_csv(file, today, libc) ==
  IF ~file.readable THEN Raised
  ELSE Returned([i \in 1..Len(file.rows) |-> csv_transaction(file.rows[i], today, libc)])

PdfImport == <<"PDF Import">>

\* parse_pdf.  The text the PDF library extracts is taken as the lines that
\* hold a date (date_pat) in their order, each with the description lines
\* collected for it and the first amount (amount_pat) found after it, None
\* when there is none; no text, or no PDF library, raises ValueError.
pdf_transaction(row, today, libc) ==
  RawTransaction(parse_date(row.Date, today, libc),
                 Or(strip(row.Description), PdfImport),
                 IF row.Amount # None /\ row.Amount # <<>>
                   THEN parse_amount(row.Amount) ELSE Zero)

parse_pdf(file, today, libc) ==
  IF ~file.readable \/ ~file.has_text THEN Raised
  ELSE Returned([i \in 1..Len(file.rows) |-> pdf_transaction(file.rows[i], today, libc)])

\* parse_date_ofx: YYYYMMDD at the start of the text, else parse_date
parse_date_ofx(dtstr, today, libc) ==
  IF dtstr = <<>> THEN today
  ELSE IF /\ Len(dtstr) >= 8
          /\ \A j \in 1..8 : dtstr[j] \in DigitSet
          /\ datetime(NumAt(dtstr, 1, 4), NumAt(dtstr, 5, 2), NumAt(dtstr, 7, 2)).ok
    THEN strftime([ok |-> TRUE, Y |-> NumAt(dtstr, 1, 4), m |-> NumAt(dtstr, 5, 2),
                   d |-> NumAt(dtstr, 7, 2)], libc)
  ELSE parse_date(dtstr, today, libc)

\* The group of <TRNAMT>\s*([+-]?\d+[\.,]?\d*): the length of the longest
\* text at the start of the tag's value that the pattern matches, 0 for none
RECURSIVE DigitRun(_, _)
DigitRun(s, i) == IF i <= Len(s) /\ s[i] \in DigitSet THEN 1 + DigitRun(s, i + 1) ELSE 0

SignLen(t) == IF t # <<>> /\ t[1] \in {"+", "-"} THEN 1 ELSE 0

SepLen(t, i) == IF i <= Len(t) /\ t[i] \in {".", ","} THEN 1 ELSE 0

group_from(t, sign, int) ==
  IF int = 0 THEN <<>>
  ELSE SubSeq(t, 1, sign + int + SepLen(t, sign + int + 1)
                      + DigitRun(t, sign + int + SepLen(t, sign + int + 1) + 1))

TrnAmtGroup(s) == group_from(lstrip(s), SignLen(lstrip(s)), DigitRun(lstrip(s), SignLen(lstrip(s)) + 1))

\* float() accepts a leading '+'
float_signed(s) ==
  IF s # <<>> /\ Head(s) = "+" /\ (Len(s) < 2 \/ s[2] # "-")
    THEN float(Tail(s)) ELSE float(s)

OfxImport == <<"OFX Import">>

\* One STMTTRN block whose TRNAMT gave the group am
ofx_transaction(blk, am, today, libc) ==
  IF blk.Amount = None \/ am = <<>> THEN <<>>
  ELSE <<RawTransaction(parse_date_ofx(blk.Date, today, libc),
                        Or(strip(blk.Description), OfxImport),
                        float_signed(replace(am, ",", <<".">>)).value)>>

\* The STMTTRN blocks in file order; a block without TRNAMT is passed over
RECURSIVE ofx_blocks(_, _, _)
ofx_blocks(blocks, today, libc) ==
  IF blocks = <<>> THEN <<>>
  ELSE ofx_transaction(Head(blocks), TrnAmtGroup(Head(blocks).Amount), today, libc)
         \o ofx_blocks(Tail(blocks), today, libc)

\* parse_ofx without the optional ofxparse package, or with the package
\* raising: the manual parser; an error in it is raised as ValueError.
parse_ofx(file, today, libc) ==
  IF ~file.readable THEN Raised
  ELSE Returned(ofx_blocks(file.rows, today, libc))

\* ------------------------------------------------------------------------
\* The import worker and the Import File button (BankFeedImportThread,
\* BankFeedsTab)
\* ------------------------------------------------------------------------
MaxThreads == 2

ExtCsv == <<".", "c", "s", "v">>
ExtPdf == <<".", "p", "d", "f">>
ExtOfx == <<".", "o", "f", "x">>
ExtTxt == <<".", "t", "x", "t">>
ExtCsvUpper == <<".", "C", "S", "V">>

Supported == {ExtCsv, ExtPdf, ExtOfx}

\* Path(file_path).suffix.lower()
suffix_lower(file) == PyLower(file.ext)

Row(date, amount) == [Date |-> date, Description |-> DescAb, Amount |-> amount]

File(ext, readable, has_text, rows) ==
  [ext |-> ext, readable |-> readable, has_text |-> has_text, rows |-> rows]

CsvDateCells ==
  {<<"3", "1", "/", "0", "1", "/", "2", "0", "2", "5">>,
   <<"2", "0", "2", "5", "/", "0", "1", "/", "3", "1">>,
   <<"2", "0", "2", "5", "0", "1", "3", "1", "1", "2", "0", "0", "0", "0">>,
   <<>>}

CsvAmountCells ==
  {<<"1", ",", "2", "3", "4", ".", "5", "6">>,
   <<"a", "b", "c">>,
   <<"0">>,
   <<"-", "5", "0", ".", "0", "0">>} \cup {None}

CsvRows == {Row(d, a) : d \in CsvDateCells, a \in CsvAmountCells}

GoodRow == Row(<<"3", "1", "/", "0", "1", "/", "2", "0", "2", "5">>, <<"1", ",", "2", "3", "4", ".", "5", "6">>)

CsvFiles ==
  {File(ExtCsv, TRUE, FALSE, rows) :
     rows \in {<<>>} \cup {<<r>> : r \in CsvRows}
                   \cup {<<Row(d, <<>>), GoodRow>> : d \in CsvDateCells}}
    \cup {File(ExtCsvUpper, TRUE, FALSE, <<GoodRow>>), File(ExtCsv, FALSE, FALSE, <<>>)}

PdfRows ==
  {Row(d, a) : d \in {<<"3", "1", "/", "0", "1", "/", "2", "0", "2", "5">>, <<"2", "0", "2", "5", "/", "0", "1", "/", "3", "1">>},
               a \in {<<"1", ",", "2", "3", "4", ".", "5", "6">>, <<"-", "5", "0", ".", "0", "0">>, <<"0", ".", "0", "0">>} \cup {None}}

PdfFiles ==
  {File(ExtPdf, TRUE, TRUE, rows) : rows \in {<<>>} \cup {<<r>> : r \in PdfRows}}
    \cup {File(ExtPdf, TRUE, FALSE, <<>>), File(ExtPdf, FALSE, FALSE, <<>>)}

OfxRows ==
  {Row(d, a) : d \in {<<"2", "0", "2", "5", "0", "1", "3", "1">>, <<"2", "0", "2", "5", "0", "1", "3", "1", "1", "2", "0", "0", "0", "0">>, <<>>},
               a \in {<<"-", "5", "0", ".", "0", "0">>, <<"0", ".", "0", "0">>, <<"+", "1", "2", ",", "5">>, <<"a", "b", "c">>} \cup {None}}

OfxFiles ==
  {File(ExtOfx, TRUE, FALSE, rows) : rows \in {<<>>} \cup {<<r>> : r \in OfxRows}}
    \cup {File(ExtOfx, FALSE, FALSE, <<>>)}

OtherFiles == {File(ExtTxt, TRUE, FALSE, <<>>), File(<<>>, TRUE, FALSE, <<>>)}

Files == CsvFiles \cup PdfFiles \cup OfxFiles \cup OtherFiles

\* What each parser does with each file of its kind
ParsedCsv == [file \in CsvFiles, libc \in Libcs |-> parse_csv(file, Today, libc)]

ParsedPdf == [file \in PdfFiles, libc \in Libcs |-> parse_pdf(file, Today, libc)]

ParsedOfx == [file \in OfxFiles, libc \in Libcs |-> parse_ofx(file, Today, libc)]

ParseCsvCall ==
  /\ \E file \in CsvFiles, libc \in Libcs :
       probe' = [NoProbe EXCEPT !.fn = "parse_csv", !.arg = file, !.libc = libc,
                                !.raised = ParsedCsv[file, libc].raised,
                                !.transactions = ParsedCsv[file, libc].transactions]
  /\ UNCHANGED <<recon_vars, import_vars, threads, raw_bank_feeds, engine_out, more_vars>>

ParsePdfCall ==
  /\ \E file \in PdfFiles, libc \in Libcs :
       probe' = [NoProbe EXCEPT !.fn = "parse_pdf", !.arg = file, !.libc = libc,
                                !.raised = ParsedPdf[file, libc].raised,
                                !.transactions = ParsedPdf[file, libc].transactions]
  /\ UNCHANGED <<recon_vars, import_vars, threads, raw_bank_feeds, engine_out, more_vars>>

ParseOfxCall ==
  /\ \E file \in OfxFiles, libc \in Libcs :
       probe' = [NoProbe EXCEPT !.fn = "parse_ofx", !.arg = file, !.libc = libc,
                                !.raised = ParsedOfx[file, libc].raised,
                                !.transactions = ParsedOfx[file, libc].transactions]
  /\ UNCHANGED <<recon_vars, import_vars, threads, raw_bank_feeds, engine_out, more_vars>>

\* The files the workers of the model are started on: one of each kind that
\* parses, one of each kind whose parser raises, and files of other kinds
WorkerFiles ==
  {File(ExtCsv, TRUE, FALSE, <<GoodRow>>),
   File(ExtCsvUpper, TRUE, FALSE, <<GoodRow>>),
   File(ExtCsv, FALSE, FALSE, <<>>),
   File(ExtPdf, TRUE, TRUE, <<GoodRow>>),
   File(ExtPdf, TRUE, FALSE, <<>>),
   File(ExtOfx, TRUE, FALSE, <<>>)} \cup OtherFiles

Finished(txns) ==
  [signal |-> "finished", transactions |-> txns, message |-> ""]

Error(message) == [signal |-> "error", transactions |-> <<>>, message |-> message]

\* What run does with the outcome of the parser it called
emit_parsed(parsed) ==
  IF parsed.raised THEN [raised |-> TRUE, emitted |-> <<>>]
  ELSE [raised |-> FALSE, emitted |-> <<Finished(parsed.transactions)>>]

\* The try block of run: the signals it emits and whether it raises
run_try(file, today, libc) ==
  CASE suffix_lower(file) = ExtCsv -> emit_parsed(parse_csv(file, today, libc))
    [] suffix_lower(file) = ExtPdf -> emit_parsed(parse_pdf(file, today, libc))
    [] suffix_lower(file) = ExtOfx -> emit_parsed(parse_ofx(file, today, libc))
    [] OTHER -> [raised |-> FALSE, emitted |-> <<Error("Unsupported file type")>>]

run_without_except(file, today, libc) == run_try(file, today, libc).emitted

\* The except clause of run
run_except(body) ==
  IF body.raised THEN Append(body.emitted, Error("exception and traceback"))
  ELSE body.emitted

\* run: the signals the worker emits, in order
run(file, today, libc) == run_except(run_try(file, today, libc))

EmittedBy == [file \in WorkerFiles, libc \in Libcs |-> run(file, Today, libc)]

Thread(file, by_tab) ==
  [file |-> file, by_tab |-> by_tab, pc |-> "running", emitted |-> <<>>]

\* BankFeedsTab.import_file with a file chosen in the dialog: an extension
\* that is not supported shows a warning and starts nothing.
ImportFile ==
  /\ Len(threads) < MaxThreads
  /\ \E file \in WorkerFiles :
       /\ suffix_lower(file) \in Supported
       /\ threads' = Append(threads, Thread(file, TRUE))
  /\ UNCHANGED <<recon_vars, import_vars, probe, raw_bank_feeds, engine_out, more_vars>>

\* BankFeedImportThread(file_path).start() on any path
StartThread ==
  /\ Len(threads) < MaxThreads
  /\ \E file \in WorkerFiles : threads' = Append(threads, Thread(file, FALSE))
  /\ UNCHANGED <<recon_vars, import_vars, probe, raw_bank_feeds, engine_out, more_vars>>

\* BankFeedImportThread.run of a started thread
Run ==
  /\ \E i \in 1..Len(threads), libc \in Libcs :
       /\ threads[i].pc = "running"
       /\ threads' = [threads EXCEPT ![i].pc = "done",
                                     ![i].emitted = EmittedBy[threads[i].file, libc]]
  /\ UNCHANGED <<recon_vars, import_vars, probe, raw_bank_feeds, engine_out, more_vars>>

\* ------------------------------------------------------------------------
\* The raw feed engine (BankImportEngine)
\* ------------------------------------------------------------------------
MaxFeeds == 2

\* date_format = None
NoFormat == <<>>

FmtIso == <<"%Y", "-", "%m", "-", "%d">>

engine_fmts ==
  << <<"%Y", "-", "%m", "-", "%d">>,
     <<"%d", "/", "%m", "/", "%Y">>,
     <<"%d", "-", "%m", "-", "%Y">>,
     <<"%m", "/", "%d", "/", "%Y">> >>

\* date.isoformat()
isoformat(dt) == Digits(dt.Y, 4) \o <<"-">> \o Digits(dt.m, 2) \o <<"-">> \o Digits(dt.d, 2)

\* datetime.fromisoformat of a text none of the formats reads, taken as
\* YYYY-MM-DD with two-digit month and day.  No call of the model gets here:
\* a text the date_format of the model reads is read by engine_fmts[1].
fromisoformat(s) == IF Len(s) = 10 THEN strptime(s, FmtIso) ELSE NoDate

\* Decimal(text) of a text of digits, a sign and '.': as float reads it;
\* anything else raises InvalidOperation.
Decimal(s) == float_signed(s)

\* quantize(Decimal('0.01'), rounding=ROUND_HALF_UP)
quantized(sign, mag, unit) ==
  Number(sign * ((mag \div unit) + (IF 2 * (mag % unit) >= unit THEN 1 ELSE 0)), 2)

decimal_round(v) ==
  IF v.scale <= 2 THEN v
  ELSE quantized(IF v.num < 0 THEN 0 - 1 ELSE 1, Abs(v.num), 10 ^ (v.scale - 2))

Unbound == [ok |-> FALSE, text |-> <<>>]

Bound(text) == [ok |-> TRUE, text |-> text]

\* The local variable bank_date after lines 87 to 99 for one row: the whole
\* block, the loop over the formats included, is under `if date_format:`, so
\* without a date_format nothing is assigned; a strptime or fromisoformat
\* that raises ends the row.
bank_date_of(raw_date, date_format) ==
  IF date_format = NoFormat THEN [raised |-> FALSE, bank_date |-> Unbound]
  ELSE IF ~strptime(raw_date, date_format).ok THEN [raised |-> TRUE, bank_date |-> Unbound]
  ELSE IF ~first_ok(try_formats(raw_date, engine_fmts, 1), fromisoformat(raw_date)).ok
    THEN [raised |-> TRUE, bank_date |-> Unbound]
  ELSE [raised |-> FALSE,
        bank_date |-> Bound(isoformat(first_ok(try_formats(raw_date, engine_fmts, 1),
                                               fromisoformat(raw_date))))]

SourceFile == "statement.csv"

RawFeedRow(bank_date, amount, payee) ==
  [source_file |-> SourceFile, bank_date |-> bank_date, amount |-> amount,
   currency |-> "ZAR", payee |-> payee, reference |-> "None"]

\* One data row of a file with the header Date,Amount,Payee: the RawFeedRow
\* appended, or nothing when a statement of the try block raises.  Reading
\* bank_date while it is unbound raises UnboundLocalError.
row_parsed(r, dated, amount) ==
  IF dated.raised \/ ~amount.ok \/ ~dated.bank_date.ok THEN <<>>
  ELSE <<RawFeedRow(dated.bank_date.text, decimal_round(amount.value), r.Payee)>>

\* bank_date is a local of parse_csv: once a row has bound it, a later row
\* reads the value it was left with; with the block under `if date_format:`
\* it is bound for every row or for none.
RECURSIVE engine_parse_csv(_, _)
engine_parse_csv(rows, date_format) ==
  IF rows = <<>> THEN <<>>
  ELSE row_parsed(Head(rows), bank_date_of(strip(Head(rows).Date), date_format),
                  Decimal(strip(replace(Head(rows).Amount, ",", <<>>))))
         \o engine_parse_csv(Tail(rows), date_format)

\* asdict of each row
preview_rows(rows) == rows

\* commit_rows: one INSERT per row with posted = 0, then commit
commit_rows(table, rows) == table \o [i \in 1..Len(rows) |-> [row |-> rows[i], posted |-> 0]]

EngineDateCells ==
  {<<"2", "0", "2", "5", "-", "0", "1", "-", "3", "1">>,
   <<"3", "1", "/", "0", "1", "/", "2", "0", "2", "5">>,
   <<" ", "0", "1", "-", "0", "2", "-", "2", "0", "2", "5", " ">>,
   <<"0", "1", "/", "1", "3", "/", "2", "0", "2", "5">>,
   <<"2", "0", "2", "5", "-", "0", "2", "-", "3", "0">>,
   <<"b", "a", "d">>}

EngineAmountCells ==
  {<<"1", "0", "0", ".", "0", "0">>,
   <<"1", ",", "2", "3", "4", ".", "5", "6">>,
   <<"2", ".", "6", "7", "5">>,
   <<"-", "5">>,
   <<"a", "b", "c">>,
   <<>>}

EngineRow(date, amount) == [Date |-> date, Amount |-> amount, Payee |-> DescAb]

EngineRows == {EngineRow(d, a) : d \in EngineDateCells, a \in EngineAmountCells}

EngineGoodRow == EngineRow(<<"2", "0", "2", "5", "-", "0", "1", "-", "3", "1">>, <<"1", "0", "0", ".", "0", "0">>)

\* Files with a header line; next(reader) raises StopIteration on a file
\* without one.
EngineFiles ==
  {[header |-> TRUE, rows |-> rows] :
     rows \in {<<>>} \cup {<<r>> : r \in EngineRows}
                   \cup {<<r, EngineGoodRow>> : r \in EngineRows}}
    \cup {[header |-> FALSE, rows |-> <<>>]}

NoCall ==
  [called |-> FALSE, file |-> [header |-> FALSE, rows |-> <<>>], date_format |-> NoFormat,
   raised |-> FALSE, count |-> 0, preview |-> <<>>]

ParsedByEngine ==
  [file \in EngineFiles, date_format \in {NoFormat, FmtIso} |->
     engine_parse_csv(file.rows, date_format)]

\* import_csv_to_raw(filepath, None, date_format), as import_statement calls
\* it without a date_format
ImportCsvToRaw ==
  /\ \E file \in EngineFiles, date_format \in {NoFormat, FmtIso} :
       /\ Len(raw_bank_feeds) + Len(ParsedByEngine[file, date_format]) <= MaxFeeds
       /\ IF ~file.header
            THEN /\ engine_out' = [NoCall EXCEPT !.called = TRUE, !.file = file,
                                                 !.date_format = date_format,
                                                 !.raised = TRUE]
                 /\ UNCHANGED raw_bank_feeds
            ELSE /\ raw_bank_feeds' = commit_rows(raw_bank_feeds, ParsedByEngine[file, date_format])
                 /\ engine_out' =
                      [NoCall EXCEPT !.called = TRUE, !.file = file,
                                     !.date_format = date_format,
                                     !.count = Len(ParsedByEngine[file, date_format]),
                                     !.preview = preview_rows(ParsedByEngine[file, date_format])]
  /\ UNCHANGED <<recon_vars, import_vars, threads, probe, more_vars>>


\* ------------------------------------------------------------------------
\* One cash-book entry as texts and SQL values (cash_book_tab.py): the
\* payload _save_edit_entry formats and undo_last splits
\* ------------------------------------------------------------------------
MaxEdits == 2

\* A value of a column: NULL, a text, or a REAL in cents.
SqlNull == [type |-> "null", text |-> <<>>, cents |-> 0]
SqlText(t) == [type |-> "text", text |-> t, cents |-> 0]
SqlReal(c) == [type |-> "real", text |-> <<>>, cents |-> c]

\* The decimal digits of n >= 0
RECURSIVE IntText(_)
IntText(n) == IF n < 10 THEN <<DigitChars[n + 1]>> ELSE IntText(n \div 10) \o <<DigitChars[(n % 10) + 1]>>

\* repr() of a float with at most two decimals: '150.0', '150.25', '0.5'
FractionText(c) ==
  IF c % 10 = 0 THEN <<DigitChars[(c \div 10) + 1]>> ELSE Digits(c, 2)

repr_float(cents) ==
  (IF cents < 0 THEN <<"-">> ELSE <<>>)
    \o IntText(Abs(cents) \div 100) \o <<".">> \o FractionText(Abs(cents) % 100)

\* f"{value}": str() of what the cursor returned
str(v) ==
  CASE v.type = "null" -> <<"N", "o", "n", "e">>
    [] v.type = "text" -> v.text
    [] OTHER -> repr_float(v.cents)

Bars == <<"|", "|", "|">>

BarsAt(s) == {i \in 1..(Len(s) - 2) : SubSeq(s, i, i + 2) = Bars}

\* str.split('|||')
RECURSIVE split(_)
split(s) ==
  IF BarsAt(s) = {} THEN <<s>>
  ELSE <<SubSeq(s, 1, SetMin(BarsAt(s)) - 1)>>
         \o split(SubSeq(s, SetMin(BarsAt(s)) + 3, Len(s)))

\* prev = (date, narration, reference, debit, credit) and the payload
\* f"{cid}|||{prev[0]}|||{prev[1]}|||{prev[2]}|||{prev[3]}|||{prev[4]}"
edit_payload(cid, prev) ==
  IntText(cid) \o Bars \o str(prev.date) \o Bars \o str(prev.narration) \o Bars
    \o str(prev.reference) \o Bars \o str(prev.debit) \o Bars \o str(prev.credit)

\* A text bound to a REAL column: SQLite stores a text that is a number as
\* that number, and every other text as the text.
Cents(number) == number.num * (10 ^ (2 - number.scale))

real_affinity(text, f) ==
  IF f.ok /\ f.value.scale <= 2 THEN SqlReal(Cents(f.value)) ELSE SqlText(text)

real_column(text) == real_affinity(text, float(text))

\* The columns an edit writes
EntryRow(dt, narr, ref, d, c) ==
  [date |-> dt, narration |-> narr, reference |-> ref, debit |-> d, credit |-> c]

\* The entry is not in the table
NoEntry == EntryRow(SqlNull, SqlNull, SqlNull, SqlNull, SqlNull)

\* undo_last, 'edit_cashbook': the UPDATE with the parts of the payload
restored_row(parts) ==
  EntryRow(SqlText(parts[2]), SqlText(parts[3]), SqlText(parts[4]),
           real_column(parts[5]), real_column(parts[6]))

\* The id of the entry
EntryId == 1

\* What the dialogs of the entry can hold.  The date is the text of a
\* QDateEdit; float('nan') is bound as NULL by sqlite3.
EntryDates == {<<"2", "0", "2", "5", "-", "0", "1", "-", "1", "2">>}
EntryNarrations == {<<"a", "b">>, <<>>, <<"a", "|", "|", "|", "b">>}
EntryReferences == {<<>>, <<"r">>, <<"7">>}
NaN == <<"n", "a", "n">>
EntryAmountTexts == {<<"1", "5", "0">>, <<>>, <<"1", "5", "0", ".", "2", "5">>, NaN}

\* float(w.text() or 0), as the INSERT and the UPDATE store it
field_value(f) == IF f.ok /\ f.value.scale <= 2 THEN SqlReal(Cents(f.value)) ELSE SqlNull

field_float(text) ==
  IF text = <<>> THEN SqlReal(0)
  ELSE IF text = NaN THEN SqlNull
  ELSE field_value(float(text))

EditRecord(action, payload, before) ==
  [action |-> action, payload |-> payload, before |-> before]

\* CashBookTab._save_manual_tx, on the columns of the row it inserts
save_manual_tx ==
  /\ entry = NoEntry
  /\ Len(edit_undo) < MaxEdits
  /\ \E dt \in EntryDates, narr \in EntryNarrations, ref \in EntryReferences,
        debit_w \in EntryAmountTexts, credit_w \in EntryAmountTexts :
       entry' = EntryRow(SqlText(dt), SqlText(narr), SqlText(ref),
                         field_float(debit_w), field_float(credit_w))
  /\ edit_undo' = Append(edit_undo, EditRecord("insert_cashbook", IntText(EntryId), NoEntry))
  /\ dialog' = "Manual transaction added"
  /\ UNCHANGED <<recon_tables, bank_undo, sqlite_sequence, stmts, cbs, stmt_matches, undone,
                 import_vars, threads, probe, raw_bank_feeds, engine_out, other_vars>>

\* CashBookTab._save_edit_entry, on the columns of the row it updates
save_edit_entry ==
  /\ entry # NoEntry
  /\ Len(edit_undo) < MaxEdits
  /\ \E dt \in EntryDates, narr \in EntryNarrations, ref \in EntryReferences,
        debit_w \in EntryAmountTexts, credit_w \in EntryAmountTexts :
       entry' = EntryRow(SqlText(dt), SqlText(narr), SqlText(ref),
                         field_float(debit_w), field_float(credit_w))
  /\ edit_undo' = Append(edit_undo,
                         EditRecord("edit_cashbook", edit_payload(EntryId, entry), entry))
  /\ dialog' = "Cashbook entry edited"
  /\ UNCHANGED <<recon_tables, bank_undo, sqlite_sequence, stmts, cbs, stmt_matches, undone,
                 import_vars, threads, probe, raw_bank_feeds, engine_out, other_vars>>

\* CashBookTab.undo_last, on the columns of the row
undo_last ==
  /\ IF edit_undo = <<>>
     THEN /\ dialog' = "Nothing to undo"
          /\ UNCHANGED <<entry, edit_undo>>
     ELSE /\ edit_undo' = SubSeq(edit_undo, 1, Len(edit_undo) - 1)
          /\ IF edit_undo[Len(edit_undo)].action = "insert_cashbook"
             THEN /\ entry' = NoEntry
                  /\ dialog' = "Last inserted cashbook entry removed"
             ELSE /\ entry' = IF entry = NoEntry THEN NoEntry
                              ELSE restored_row(split(edit_undo[Len(edit_undo)].payload))
                  /\ dialog' = "Last edit reverted"
  /\ UNCHANGED <<recon_tables, bank_undo, sqlite_sequence, stmts, cbs, stmt_matches, undone,
                 import_vars, threads, probe, raw_bank_feeds, engine_out, other_vars>>

\* ------------------------------------------------------------------------
\* CashBookTab (cash_book_tab.py): the Import tab
\* ------------------------------------------------------------------------
MaxPreview == 2

\* A row of the preview: the Amount cell holds a text, and float() of it, or
\* 0.0 when it is empty or no number, is the amount that is posted.  The
\* Date cells of these statements are not empty.
PreviewRow(d, desc, amt) == [date |-> IsoDate(d), description |-> desc, amount |-> amt]

PreviewAmounts == {15000, -2500, 0}

PreviewRows == {PreviewRow(12, desc, amt) : desc \in {NarrAbc, NarrAB}, amt \in PreviewAmounts}

Statements == UNION {[1..n -> PreviewRows] : n \in 0..MaxPreview}

\* CashBookTab.load_csv_for_import: the preview shows the rows of the file
LoadCsvForImport ==
  /\ \E rows \in Statements : import_preview' = rows
  /\ UNCHANGED <<recon_vars, import_vars, threads, probe, raw_bank_feeds, engine_out,
                 entry_vars, journal_tables, posted, scan>>

\* The two INSERTs and the push_undo of one row of the preview
PostRow(db, row, aid) ==
  LET cb_id == db.seq + 1
  IN  [book |-> InsertRow(db.book, cb_id,
                   IF row.amount > 0
                   THEN CbRow(row.date, aid, row.description, row.amount, 0, 0)
                   ELSE CbRow(row.date, aid, row.description, 0, Abs(row.amount), 0)),
       seq |-> cb_id,
       undo |-> push_undo(db.undo, UndoRec("insert_cashbook", cb_id, NoRow, 0, NoId, NoId)),
       txs |-> Append(db.txs, [date |-> row.date, description |-> row.description,
                               amount |-> Abs(row.amount)])]

\* for date, desc, amt, fitid in rows
RECURSIVE PostRows(_, _, _)
PostRows(db, rows, aid) ==
  IF rows = <<>> THEN db ELSE PostRows(PostRow(db, Head(rows), aid), Tail(rows), aid)

Posted(after) ==
  /\ cash_book' = after.book
  /\ sqlite_sequence' = [sqlite_sequence EXCEPT !.cash_book = after.seq]
  /\ bank_undo' = after.undo
  /\ transactions' = after.txs

\* CashBookTab.post_import_to_transactions, with an account selected
PostImportToTransactions ==
  /\ sqlite_sequence.cash_book + Len(import_preview) <= MaxCb
  /\ Len(bank_undo) + Len(import_preview) <= MaxUndo
  /\ Len(transactions) + Len(import_preview) <= MaxTx
  /\ \E aid \in Accounts :
       Posted(PostRows([book |-> cash_book, seq |-> sqlite_sequence.cash_book,
                        undo |-> bank_undo, txs |-> transactions],
                       import_preview, aid))
  /\ dialog' = "Imported to transactions and cashbook"
  /\ undone' = NoUndone
  /\ ResetAutoMatchLocals
  /\ UNCHANGED <<bank_statement_lines, reconciliation_matches, importer, write_lock,
                 feed_vars>>

\* ------------------------------------------------------------------------
\* Journal postings: shared/ledger_engine.py post_journal_entry and
\* pro/journal_tab.py post_manual_journal
\* ------------------------------------------------------------------------
MaxJournals == 1    \* rows of journal_entries, and of journal_headers
MaxLines == 2       \* lines of one posting

\* Amounts are thousandths of the currency unit, so that totals that differ
\* by less than a cent exist.
JournalLine(account, debit, credit) ==
  [account_id |-> account, debit |-> debit, credit |-> credit]

JournalAmounts == {<<100000, 0>>, <<0, 100000>>, <<100004, 0>>, <<0, 100006>>}

JournalLines == {JournalLine(1, a[1], a[2]) : a \in JournalAmounts}

Postings == UNION {[1..n -> JournalLines] : n \in 0..MaxLines}

\* sum(l.get("debit", 0) or 0 for l in lines)
RECURSIVE debit_total(_)
debit_total(lines) ==
  IF lines = <<>> THEN 0 ELSE Head(lines).debit + debit_total(Tail(lines))

\* sum(l.get("credit", 0) or 0 for l in lines)
RECURSIVE credit_total(_)
credit_total(lines) ==
  IF lines = <<>> THEN 0 ELSE Head(lines).credit + credit_total(Tail(lines))

\* round(x, 2) of a total that is not negative, in cents.  The amounts above
\* are even numbers of thousandths: no total is half-way between two cents.
round2(x) == (x + 5) \div 10

\* A balance test on the whole currency units of the totals.
balanced_to_the_unit(debits, credits) == debits \div 1000 = credits \div 1000

\* not (round(debit_total, 2) != round(credit_total, 2))
balanced(debits, credits) == round2(debits) = round2(credits)

\* A call with its two totals and the exception it ended with, if any
PostCall(fn, lines, raised) ==
  [fn |-> fn, debits |-> debit_total(lines), credits |-> credit_total(lines),
   raised |-> raised]

\* The journal_lines rows of one entry
LinesOf(journal_id, lines) ==
  [k \in 1..Len(lines) |->
     [journal_id |-> journal_id, account_id |-> lines[k].account_id,
      debit |-> lines[k].debit, credit |-> lines[k].credit]]

\* ledger_engine.post_journal_entry
post_journal_entry ==
  /\ UNCHANGED <<recon_vars, import_vars, threads, probe, raw_bank_feeds, engine_out,
                 entry_vars, import_preview, scan>>
  /\ \E lines \in Postings :
    IF ~balanced(debit_total(lines), credit_total(lines))
    THEN /\ posted' = PostCall("post_journal_entry", lines, "ValueError")
         /\ UNCHANGED journal_tables
    ELSE LET journal_id == Len(journal_entries) + 1
             before == [entries |-> journal_entries, lines |-> journal_lines]
             after == db_connection(before,
                                    [entries |-> Append(journal_entries, [id |-> journal_id]),
                                     lines |-> journal_lines \o LinesOf(journal_id, lines)],
                                    TRUE)
         IN  /\ journal_id <= MaxJournals
             /\ journal_entries' = after.entries
             /\ journal_lines' = after.lines
             /\ posted' = PostCall("post_journal_entry", lines, "")
             /\ UNCHANGED journal_headers

\* journal_tab.post_manual_journal.  journal_lines is the table db.py
\* creates (journal_id, account_id, debit, credit): every connection
\* initialises the database before journal_tab's CREATE TABLE IF NOT EXISTS
\* runs, so the INSERT of a line, which names header_id and gl_account_id,
\* raises OperationalError, and the header inserted before it is never
\* committed.
post_manual_journal ==
  \E lines \in Postings :
    /\ UNCHANGED <<recon_vars, import_vars, threads, probe, raw_bank_feeds, engine_out,
                   entry_vars, import_preview, scan>>
    /\ UNCHANGED <<journal_entries, journal_lines>>
    /\ IF ~balanced(debit_total(lines), credit_total(lines))
       THEN /\ posted' = PostCall("post_manual_journal", lines, "ValueError")
            /\ UNCHANGED journal_headers
       ELSE IF lines # <<>>
       THEN /\ posted' = PostCall("post_manual_journal", lines, "OperationalError")
            /\ UNCHANGED journal_headers
       ELSE /\ Len(journal_headers) < MaxJournals
            /\ journal_headers' = Append(journal_headers,
                                         [total_debits |-> debit_total(lines),
                                          total_credits |-> credit_total(lines)])
            /\ posted' = PostCall("post_manual_journal", lines, "")

\* ------------------------------------------------------------------------
\* BankFeedImportThread.parse_pdf (bank_feeds_tab.py): the scan of the
\* extracted text, one loop iteration at a time
\* ------------------------------------------------------------------------
MaxPdfLines == 3

CharAt(s, p) == IF p \in 1..Len(s) THEN s[p] ELSE ""

DigitsAt(s, p, n) == \A k \in p..(p + n - 1) : IsDigit(CharAt(s, k))

IsDateSep(c) == c = "/" \/ c = "-"

\* \d{a}[/-]\d{2}[/-]\d{b} at p
DateShapeAt(s, p, a, b) ==
  /\ DigitsAt(s, p, a)
  /\ IsDateSep(CharAt(s, p + a))
  /\ DigitsAt(s, p + a + 1, 2)
  /\ IsDateSep(CharAt(s, p + a + 3))
  /\ DigitsAt(s, p + a + 4, b)

\* The length of the match of date_pat at p, 0 when there is none:
\* (\d{2}[/-]\d{2}[/-]\d{2,4}|\d{8}|\d{4}[/-]\d{2}[/-]\d{2}), the
\* alternatives in this order and \d{2,4} taking as many digits as it can.
date_pat_at(s, p) ==
  IF DateShapeAt(s, p, 2, 4) THEN 10
  ELSE IF DateShapeAt(s, p, 2, 3) THEN 9
  ELSE IF DateShapeAt(s, p, 2, 2) THEN 8
  ELSE IF DigitsAt(s, p, 8) THEN 8
  ELSE IF DateShapeAt(s, p, 4, 2) THEN 10
  ELSE 0

\* [.,\s]\d{3} at r
GroupAt(s, r) == CharAt(s, r) \in ({".", ","} \cup Whitespace) /\ DigitsAt(s, r + 1, 3)

\* [.,]\d{2} at r
CentsAt(s, r) == CharAt(s, r) \in {".", ","} /\ DigitsAt(s, r + 1, 2)

\* How many groups follow one another from r
RECURSIVE GroupsFrom(_, _)
GroupsFrom(s, r) == IF GroupAt(s, r) THEN 1 + GroupsFrom(s, r + 4) ELSE 0

\* The numbers of groups after which the cents follow
GroupCounts(s, r) == {n \in 0..GroupsFrom(s, r) : CentsAt(s, r + 4 * n)}

\* The end of \d{k}(?:[.,\s]\d{3})*(?:[.,]\d{2}) from q with the most groups,
\* 0 when there is no match
DigitsThenCents(s, q, k) ==
  IF DigitsAt(s, q, k) /\ GroupCounts(s, q + k) # {}
  THEN q + k + 4 * SetMax(GroupCounts(s, q + k)) + 2
  ELSE 0

\* The end of [+-]?\d{1,3}... from its first digit at q: three digits are
\* tried first, then two, then one
amount_end(s, q) ==
  IF DigitsThenCents(s, q, 3) > 0 THEN DigitsThenCents(s, q, 3)
  ELSE IF DigitsThenCents(s, q, 2) > 0 THEN DigitsThenCents(s, q, 2)
  ELSE DigitsThenCents(s, q, 1)

\* The end of the match of amount_pat at p, 0 when there is none
amount_pat_at(s, p) ==
  amount_end(s, IF CharAt(s, p) \in {"+", "-"} THEN p + 1 ELSE p)

NoGroup == [ok |-> FALSE, start |-> 0, group |-> <<>>]

Group(s, first, last) == [ok |-> TRUE, start |-> first - 1, group |-> SubSeq(s, first, last)]

\* date_pat.search(line): the leftmost match; start counts from 0
date_search(s) ==
  LET starts == {p \in 1..Len(s) : date_pat_at(s, p) > 0}
  IN  IF starts = {} THEN NoGroup
      ELSE Group(s, SetMin(starts), SetMin(starts) + date_pat_at(s, SetMin(starts)) - 1)

\* amount_pat.search(line)
amount_search(s) ==
  LET starts == {p \in 1..Len(s) : amount_pat_at(s, p) > 0}
  IN  IF starts = {} THEN NoGroup
      ELSE Group(s, SetMin(starts), amount_pat_at(s, SetMin(starts)))

\* " ".join(parts)
RECURSIVE join(_)
join(parts) ==
  IF parts = <<>> THEN <<>>
  ELSE IF Len(parts) = 1 THEN parts[1]
  ELSE parts[1] \o <<" ">> \o join(Tail(parts))

NonEmpty(t) == t # <<>>

\* [l.strip() for l in text.splitlines() if l.strip()]
stripped_lines(raw) ==
  SelectSeq([k \in 1..Len(raw) |-> strip(raw[k])], NonEmpty)

\* The lines of the texts a PDF library extracts
LineDate == <<"a", " ", "3", "1", "/", "0", "1", "/", "2", "0", "2", "5">>
LineAmount == <<"1", ",", "2", "3", "4", ".", "5", "6">>
LineDateAmount == <<"2", "0", "2", "5", "0", "1", "3", "1", " ", "-", "5", "0", ".", "0", "0">>
LineText == <<"a", "b">>
LineBlank == <<" ">>

TextLines == {LineDate, LineAmount, LineDateAmount, LineText, LineBlank}

PdfTexts == UNION {[1..n -> TextLines] : n \in 1..MaxPdfLines}

\* The two searches on the lines of these texts
DateSearch == [line \in {strip(l) : l \in TextLines} |-> date_search(line)]

AmountSearch == [line \in {strip(l) : l \in TextLines} |-> amount_search(line)]

\* parse_date and parse_amount of what the searches find in these lines
DatesFound ==
  [date_raw \in {DateSearch[l].group : l \in DOMAIN DateSearch}, libc \in Libcs |->
     parse_date(date_raw, Today, libc)]

AmountsFound ==
  [amt \in {AmountSearch[l].group : l \in DOMAIN AmountSearch} |-> parse_amount(amt)]

\* date, description, amount and txn_type of one block
block_transaction(date_raw, desc_parts, amt, libc) ==
  RawTransaction(DatesFound[date_raw, libc],
                 Or(strip(join(SelectSeq(desc_parts, NonEmpty))), PdfImport),
                 IF amt # None THEN AmountsFound[amt] ELSE Zero)

NoScan ==
  [pc |-> "idle", libc |-> "", lines |-> <<>>, i |-> 0, j |-> 0, date_raw |-> <<>>,
   desc_parts |-> <<>>, amt |-> None, transactions |-> <<>>, blocks |-> <<>>]

\* Where the scan goes on after a block that ended at j
after_block_at(j) == j

after_block(j) == j + 1

\* parse_pdf up to the first test of the outer loop, on a text that was
\* extracted.  A worker thread parses its one file once.
ParsePdfText ==
  /\ scan.pc = "idle"
  /\ \E raw \in PdfTexts, libc \in Libcs :
       scan' = [NoScan EXCEPT !.pc = "outer", !.libc = libc, !.lines = stripped_lines(raw)]
  /\ UNCHANGED <<recon_vars, import_vars, threads, probe, raw_bank_feeds, engine_out,
                 entry_vars, import_preview, journal_tables, posted>>

\* while i < len(lines): one test of the condition and, for a line without
\* a date, i += 1; for a line with a date, the statements up to the inner
\* loop; return transactions when the condition fails
OuterStep ==
  /\ scan.pc = "outer"
  /\ IF scan.i >= Len(scan.lines) THEN scan' = [scan EXCEPT !.pc = "done"]
     ELSE LET line == scan.lines[scan.i + 1]
              date_match == DateSearch[line]
          IN  IF ~date_match.ok THEN scan' = [scan EXCEPT !.i = @ + 1]
              ELSE scan' = [scan EXCEPT
                              !.pc = "inner",
                              !.date_raw = date_match.group,
                              !.desc_parts =
                                 IF date_match.start > 0
                                 THEN <<strip(SubSeq(line, 1, date_match.start))>>
                                 ELSE <<>>,
                              !.j = scan.i + 1,
                              !.amt = None]
  /\ UNCHANGED <<recon_vars, import_vars, threads, probe, raw_bank_feeds, engine_out,
                 entry_vars, import_preview, journal_tables, posted>>

\* The rest of the outer loop's body once the inner loop has ended
EmitTransaction(amt, j) ==
  scan' = [scan EXCEPT
             !.pc = "outer",
             !.amt = amt,
             !.j = j,
             !.transactions =
                Append(@, block_transaction(scan.date_raw, scan.desc_parts, amt, scan.libc)),
             !.blocks = Append(@, [first |-> scan.i, j |-> j]),
             !.i = after_block(j)]

\* while j < len(lines): one test of the condition and one pass of the body
InnerStep ==
  /\ scan.pc = "inner"
  /\ IF scan.j >= Len(scan.lines) THEN EmitTransaction(scan.amt, scan.j)
     ELSE LET am == AmountSearch[scan.lines[scan.j + 1]]
          IN  IF am.ok THEN EmitTransaction(am.group, scan.j)
              ELSE scan' = [scan EXCEPT !.desc_parts = Append(@, scan.lines[scan.j + 1]),
                                        !.j = @ + 1]
  /\ UNCHANGED <<recon_vars, import_vars, threads, probe, raw_bank_feeds, engine_out,
                 entry_vars, import_preview, journal_tables, posted>>

\* ------------------------------------------------------------------------
\* Specifications
\* ------------------------------------------------------------------------
StmtRow(d, desc, amt) ==
  [tx_date |-> d, description |-> desc, amount |-> amt, matched_entry_id |-> NoId]

TablesOf(rows, max) == UNION {[1..n -> rows] : n \in 0..max}

InitCommon ==
  /\ reconciliation_matches = <<>>
  /\ bank_undo = <<>>
  /\ transactions = <<>>
  /\ stmts = <<>>
  /\ cbs = <<>>
  /\ stmt_matches = <<>>
  /\ dialog = ""
  /\ undone = NoUndone
  /\ importer = [p \in Instances |-> Idle]
  /\ write_lock = NoId
  /\ threads = <<>>
  /\ probe = NoProbe
  /\ raw_bank_feeds = <<>>
  /\ engine_out = NoCall
  /\ entry = NoEntry
  /\ edit_undo = <<>>
  /\ import_preview = <<>>
  /\ journal_entries = <<>>
  /\ journal_headers = <<>>
  /\ journal_lines = <<>>
  /\ posted = [fn |-> "", debits |-> 0, credits |-> 0, raised |-> ""]
  /\ scan = NoScan

\* The reconciliation handlers of the cash-book tab, the reconcile dialog and
\* the reconciliation window on one company database.  No handler of the
\* application inserts an unmatched row into bank_statement_lines; the rows
\* auto_match reads are in the database when the window opens.
InitStmtRows == {StmtRow(IsoDate(10), DescAbcPty, 15000)}

Init ==
  /\ InitCommon
  /\ cash_book = EmptyTable
  /\ bank_statement_lines \in TablesOf(InitStmtRows, MaxInitStmt)
  /\ sqlite_sequence = [cash_book |-> 0, bank_statement_lines |-> Len(bank_statement_lines)]

Next ==
  \/ SaveManualTx
  \/ SaveEditEntry
  \/ UndoLast
  \/ MatchSelected
  \/ UndoLastMatch
  \/ OnReconcileSelected
  \/ OnUnreconcileSelected
  \/ AutoMatch
  \/ ConfirmMatches

Spec == Init /\ [][Next]_vars

\* auto_match and confirm_matches on the databases the window can be opened
\* on: every combination of the statement lines and cash-book entries below.
MatchStmtRows ==
  {StmtRow(IsoDate(10), DescAb, amt) : amt \in {15000, 15001}}

MatchCbRows ==
  {CbRow(d, 1, narr, amt, 0, rec) :
     d \in {IsoDate(7), IsoDate(14), BadDate},
     narr \in {NarrAB, NarrAbx, NarrAxy},
     amt \in {15000, 15002},
     rec \in {0}}

InitMatch ==
  /\ InitCommon
  /\ cash_book \in TablesOf(MatchCbRows, MaxInitCb)
  /\ bank_statement_lines \in TablesOf(MatchStmtRows, MaxStmt)
  /\ sqlite_sequence = [cash_book |-> Len(cash_book),
                        bank_statement_lines |-> Len(bank_statement_lines)]

NextMatch ==
  \/ AutoMatch
  \/ ConfirmMatches

SpecMatch == InitMatch /\ [][NextMatch]_vars

\* Bank-feed imports of two running instances of the application on one
\* company database.
InitImport ==
  /\ InitCommon
  /\ cash_book = EmptyTable
  /\ bank_statement_lines = EmptyTable
  /\ sqlite_sequence = [cash_book |-> 0, bank_statement_lines |-> 0]

NextImport ==
  \E p \in Instances :
    \/ StartImport(p)
    \/ CheckDuplicate(p)
    \/ InsertTxn(p)
    \/ InsertLocked(p)
    \/ CommitImport(p)

SpecImport == InitImport /\ [][NextImport]_vars

\* The tables of an empty company database
InitEmptyDb ==
  /\ InitCommon
  /\ cash_book = EmptyTable
  /\ bank_statement_lines = EmptyTable
  /\ sqlite_sequence = [cash_book |-> 0, bank_statement_lines |-> 0]

\* The parsing helpers of the import worker applied to the cells of a file,
\* and its parsers applied to files.
InitParse == InitEmptyDb

NextParse ==
  \/ ParseAmountCall
  \/ ParseDateCall
  \/ ParseCsvCall
  \/ ParsePdfCall
  \/ ParseOfxCall

SpecParse == InitParse /\ [][NextParse]_vars

\* Import workers started from one Bank Feeds tab, or directly, on the files
\* of the model.
InitWorker == InitEmptyDb

NextWorker ==
  \/ ImportFile
  \/ StartThread
  \/ Run

SpecWorker == InitWorker /\ [][NextWorker]_vars

\* Statement imports of the reconciliation window into ledger.db.
InitEngine == InitEmptyDb

NextEngine == ImportCsvToRaw

SpecEngine == InitEngine /\ [][NextEngine]_vars

\* One cash-book entry, inserted, edited and undone through the dialogs of
\* the cash-book tab, as the texts and SQL values the statements carry.
NextEntry ==
  \/ save_manual_tx
  \/ save_edit_entry
  \/ undo_last

SpecEntry == InitEmptyDb /\ [][NextEntry]_vars

\* The cash-book tab on an empty company database: manual entries, edits,
\* Undo Last and the Import tab.
NextCashBook ==
  \/ SaveManualTx
  \/ SaveEditEntry
  \/ UndoLast
  \/ LoadCsvForImport
  \/ PostImportToTransactions

SpecCashBook == InitEmptyDb /\ [][NextCashBook]_vars

\* The reconciliation window opened on one account of a company that keeps
\* the cash books of two accounts.
WindowAccount == 1

AccountCbRows ==
  {CbRow(d, account, narr, 15000, 0, 0) :
     d \in {IsoDate(10), IsoDate(14)}, account \in {WindowAccount, 2},
     narr \in {NarrAB, NarrAxy}}

InitAccounts ==
  /\ InitCommon
  /\ cash_book \in TablesOf(AccountCbRows, MaxInitCb)
  /\ bank_statement_lines \in TablesOf(MatchStmtRows, MaxStmt)
  /\ sqlite_sequence = [cash_book |-> Len(cash_book),
                        bank_statement_lines |-> Len(bank_statement_lines)]

SpecAccounts == InitAccounts /\ [][NextMatch]_vars

\* Journal postings on an empty company database.
NextJournal ==
  \/ post_journal_entry
  \/ post_manual_journal

SpecJournal == InitEmptyDb /\ [][NextJournal]_vars

\* parse_pdf on the texts of the model.  The worker thread that runs it is
\* scheduled until it returns.
NextScan ==
  \/ ParsePdfText
  \/ OuterStep
  \/ InnerStep

SpecScan == InitEmptyDb /\ [][NextScan]_vars /\ WF_vars(OuterStep) /\ WF_vars(InnerStep)

\* ------------------------------------------------------------------------
\* Properties: bank-feed import (SpecImport)
\* ------------------------------------------------------------------------
RowsWithKey(table, key) == {i \in 1..Len(table) : TxnKey(table[i]) = key}

Committed(st) == st.pc = "done" /\ st.result = "Success"

\* C3: an import of a batch that an earlier import has already committed
\* leaves the transactions table as it was: its commit adds no row.
C3_SecondImportAddsNothing ==
  [][\A p \in Instances :
       (importer[p].repeat /\ InProgress(importer[p]) /\ Committed(importer'[p]))
         => transactions' = transactions]_vars

C3_Witness ==
  \E p \in Instances :
    /\ importer[p].repeat
    /\ Committed(importer[p])
    /\ Len(importer[p].batch) = MaxBatch
    /\ importer[p].batch[1] # importer[p].batch[2]

\* C8: the rows one import commits have pairwise different keys
\* (date, lower(description)).
C8_BatchKeysUnique ==
  \A p \in Instances :
    Committed(importer[p]) =>
      \A i, j \in 1..Len(importer[p].pending) :
        i # j => TxnKey(importer[p].pending[i]) # TxnKey(importer[p].pending[j])

\* C9: is_duplicate_transaction(date, description) is true exactly when a
\* stored row has the same date and a description equal ignoring case (the
\* case folding of str.lower); the amount plays no part.
ProbeDates == {IsoDate(10), IsoDate(11)}
ProbeDescriptions == {DescAb, NarrAB, NarrAxy, DescCafeLower, DescCafeUpper}

C9_DuplicateIffSameDateAndTextIgnoringCase ==
  \A d \in ProbeDates, desc \in ProbeDescriptions :
    is_duplicate_transaction(transactions, d, desc)
      <=> \E i \in 1..Len(transactions) :
            /\ transactions[i].date = d
            /\ PyLower(transactions[i].description) = PyLower(desc)

\* C10: two imports that both passed the duplicate check for the same key
\* before either committed both insert it: once both have committed, the
\* table holds at least two rows with that key.
C10_RacingImportsBothInsert ==
  \A p \in Instances :
    \A key \in importer[p].raced :
      (/\ Committed(importer[p])
       /\ Committed(importer[Other(p)])
       /\ key \in importer[Other(p)].passed)
        => Cardinality(RowsWithKey(transactions, key)) >= 2

C10_Witness ==
  \E p \in Instances :
    \E key \in importer[p].raced :
      /\ Committed(importer[p])
      /\ Committed(importer[Other(p)])
      /\ key \in importer[Other(p)].passed
      /\ Cardinality(RowsWithKey(transactions, key)) = 2

\* ------------------------------------------------------------------------
\* Properties: auto_match and confirm_matches (SpecMatch)
\* ------------------------------------------------------------------------
Proposals == {stmt_matches[i] : i \in 1..Len(stmt_matches)}
StmtsRead == {stmts[i] : i \in 1..Len(stmts)}
CbsRead == {cbs[i] : i \in 1..Len(cbs)}

CentsApart(s, c) == Abs((c.row.debit - c.row.credit) - s.row.amount)
BothDatesIso(s, c) == s.row.tx_date.iso /\ c.row.date.iso
DaysBetween(s, c) == Abs(s.row.tx_date.day - c.row.date.day)

WithinTolerances(s, c) ==
  /\ CentsApart(s, c) <= 1
  /\ BothDatesIso(s, c)
  /\ DaysBetween(s, c) <= 3

C5_ProposalIsBestEligible ==
  /\ \A i, j \in 1..Len(stmt_matches) :
       i # j => stmt_matches[i].sid # stmt_matches[j].sid
  /\ \A m \in Proposals :
       \E s \in StmtsRead, c \in CbsRead :
         /\ s.id = m.sid
         /\ c.id = m.cid
         /\ WithinTolerances(s, c)
         /\ m.score = PairScore(s, c)
         /\ ScoreGT(m.score, [num |-> 2, den |-> 5])
         /\ \A c2 \in CbsRead :
              WithinTolerances(s, c2) => ~ScoreGT(PairScore(s, c2), m.score)

\* C6: reconciliation_matches holds exactly one MatchRecord for each
\* statement line whose matched_entry_id is set, pointing to that line and
\* its ledger entry, and no other record.
RecordsOf(sid, cid) ==
  {i \in 1..Len(reconciliation_matches) :
     /\ reconciliation_matches[i].statement_line_id = sid
     /\ reconciliation_matches[i].cashbook_entry_id = cid}

C6_OneRecordPerMatchedLine ==
  /\ \A sid \in DOMAIN bank_statement_lines :
       bank_statement_lines[sid].matched_entry_id # NoId =>
         Cardinality(RecordsOf(sid, bank_statement_lines[sid].matched_entry_id[1])) = 1
  /\ \A i \in 1..Len(reconciliation_matches) :
       LET r == reconciliation_matches[i]
       IN  /\ r.statement_line_id \in DOMAIN bank_statement_lines
           /\ bank_statement_lines[r.statement_line_id].matched_entry_id
                = IdOf(r.cashbook_entry_id)

\* C7: auto_match is all-or-nothing.  When it ends with "Matches applied"
\* every proposed pair has its matched_entry_id, its reconciled flag and its
\* MatchRecord written and nothing else is changed; when no match is
\* proposed, the user rejects or a write fails, no statement line, ledger
\* entry or MatchRecord is changed.
ProposedFor(sid) == {m \in {stmt_matches'[i] : i \in 1..Len(stmt_matches')} : m.sid = sid}
ProposedEntries == {stmt_matches'[i].cid : i \in 1..Len(stmt_matches')}

AllPairsWritten ==
  /\ DOMAIN bank_statement_lines' = DOMAIN bank_statement_lines
  /\ \A sid \in DOMAIN bank_statement_lines :
       IF ProposedFor(sid) = {}
       THEN bank_statement_lines'[sid] = bank_statement_lines[sid]
       ELSE \E m \in ProposedFor(sid) :
              bank_statement_lines'[sid] =
                [bank_statement_lines[sid] EXCEPT !.matched_entry_id = IdOf(m.cid)]
  /\ DOMAIN cash_book' = DOMAIN cash_book
  /\ \A cid \in DOMAIN cash_book :
       cash_book'[cid] = IF cid \in ProposedEntries
                         THEN [cash_book[cid] EXCEPT !.reconciled = 1]
                         ELSE cash_book[cid]
  /\ Len(reconciliation_matches') = Len(reconciliation_matches) + Len(stmt_matches')
  /\ \A i \in 1..Len(reconciliation_matches) :
       reconciliation_matches'[i] = reconciliation_matches[i]
  /\ \A i \in 1..Len(stmt_matches') :
       reconciliation_matches'[Len(reconciliation_matches) + i] =
         [statement_line_id |-> stmt_matches'[i].sid,
          cashbook_entry_id |-> stmt_matches'[i].cid,
          match_score |-> stmt_matches'[i].score]

C7_AutoMatchAllOrNothing ==
  [][/\ dialog' = "Matches applied" => AllPairsWritten
     /\ dialog' \in {"No matches found", "Confirm Auto Match: No", "Error: auto_match"}
          => UNCHANGED recon_tables]_vars

\* a batch of two pairs whose writes failed part-way, and one applied
C7_Witness ==
  /\ dialog = "Error: auto_match"
  /\ Len(stmt_matches) = 2
  /\ \A sid \in DOMAIN bank_statement_lines :
       bank_statement_lines[sid].matched_entry_id = NoId

\* ------------------------------------------------------------------------
\* Properties: the reconciliation handlers together (Spec)
\* ------------------------------------------------------------------------
\* C1: every bank_statement_lines row whose matched_entry_id is set refers
\* to an existing cash_book entry whose reconciled flag is 1.
C1_MatchedLineHasReconciledEntry ==
  \A sid \in DOMAIN bank_statement_lines :
    LET ref == bank_statement_lines[sid].matched_entry_id
    IN  ref # NoId =>
          /\ ref[1] \in DOMAIN cash_book
          /\ cash_book[ref[1]].reconciled = 1

\* C2: after a match is undone, the matched ledger entry's reconciled flag
\* equals the value it had before the match, and reconciliation_matches
\* holds no record for that statement line / ledger entry pair.
C2_UndoRestoresFlagAndRemovesRecord ==
  (undone.lid # NoId /\ undone.lid[1] \in DOMAIN cash_book) =>
    /\ cash_book[undone.lid[1]].reconciled = undone.was_reconciled
    /\ \A i \in 1..Len(reconciliation_matches) :
         ~(/\ reconciliation_matches[i].cashbook_entry_id = undone.lid[1]
           /\ reconciliation_matches[i].statement_line_id \in undone.sids)

\* ------------------------------------------------------------------------
\* Properties: the parsing helpers (SpecParse)
\* ------------------------------------------------------------------------
C16Examples ==
  {<<"1", ",", "2", "3", "4", ".", "5", "6">>,
   <<"1", ".", "2", "3", "4", ",", "5", "6">>,
   <<"1", "2", "3", "4", ",", "5", "6">>,
   <<" ", "R", " ", "1", " ", "2", "3", "4", ".", "5", "6", " ">>}

\* C16: parse_amount gives 1234.56 for each of "1,234.56", "1.234,56",
\* "1234,56" and " R 1 234.56 ".
C16_ExamplesGive1234_56 ==
  (probe.fn = "parse_amount" /\ probe.arg \in C16Examples)
    => probe.amount = Number(123456, 2)

FirstFormatRead(text) == try_formats(strip(text), fmts, 1)

YyyyMmDd(dt) == Digits(dt.Y, 4) \o <<"-">> \o Digits(dt.m, 2) \o <<"-">> \o Digits(dt.d, 2)

\* C17: when one of the seven formats reads the text, parse_date returns the
\* date read by the first of them that does, written as YYYY-MM-DD.
C17_FirstFormatAsYyyyMmDd ==
  (probe.fn = "parse_date" /\ probe.arg # <<>> /\ FirstFormatRead(probe.arg).ok)
    => probe.date = YyyyMmDd(FirstFormatRead(probe.arg))

ParserCalled == probe.fn \in {"parse_csv", "parse_pdf", "parse_ofx"}

\* C18: every transaction a parser returns has type Income when its amount
\* is greater than zero and Expense otherwise.
C18_TypeFollowsSign ==
  ParserCalled =>
    \A i \in 1..Len(probe.transactions) :
      LET txn == probe.transactions[i]
      IN  /\ txn.amount.num > 0 => txn.type = "Income"
          /\ txn.amount.num <= 0 => txn.type = "Expense"

C18_Witness ==
  /\ probe.fn = "parse_csv"
  /\ \E i, j \in 1..Len(probe.transactions) :
       /\ probe.transactions[i].amount = Zero
       /\ probe.transactions[i].type = "Expense"
       /\ probe.transactions[j].amount = Number(123456, 2)
       /\ probe.transactions[j].type = "Income"

CsvParsed == probe.fn = "parse_csv" /\ probe.arg.readable

NoFormatReads(cell) == cell = <<>> \/ ~FirstFormatRead(cell).ok

NoNumber(cell) == cell = None \/ \A k \in 1..Len(cell) : cell[k] \notin DigitSet

EightDigitRuns(cell) ==
  {k \in 1..Len(cell) : k + 7 <= Len(cell) /\ \A j \in k..(k + 7) : cell[j] \in DigitSet}

FirstEightDigits(cell) ==
  LET k == CHOOSE k \in EightDigitRuns(cell) : \A l \in EightDigitRuns(cell) : k <= l
  IN  [Y |-> NumAt(cell, k, 4), m |-> NumAt(cell, k + 4, 2), d |-> NumAt(cell, k + 6, 2)]

ValidDay(dt) == dt.Y >= 1 /\ dt.m \in 1..12 /\ dt.d >= 1 /\ dt.d <= DaysInMonth(dt.Y, dt.m)

ReadsEightDigits(cell) == EightDigitRuns(cell) # {} /\ ValidDay(FirstEightDigits(cell))

Ended(i) == threads[i].pc = "done"

ParserRaises(file) ==
  /\ suffix_lower(file) \in Supported
  /\ ~file.readable \/ (suffix_lower(file) = ExtPdf /\ ~file.has_text)

\* C11: a run that has ended has emitted exactly one signal, finished or
\* error, and none before it ended; for a file whose extension, lower-cased,
\* is none of .csv, .pdf, .ofx, and for a file whose parser raises, that
\* signal is error.
C11_OneOutcomePerRun ==
  \A i \in 1..Len(threads) :
    /\ ~Ended(i) => threads[i].emitted = <<>>
    /\ Ended(i) =>
         /\ Len(threads[i].emitted) = 1
         /\ threads[i].emitted[1].signal \in {"finished", "error"}
         /\ (suffix_lower(threads[i].file) \notin Supported \/ ParserRaises(threads[i].file))
              => threads[i].emitted[1].signal = "error"

C11_Witness ==
  \E i, j \in 1..Len(threads) :
    /\ Ended(i) /\ threads[i].file.ext = ExtTxt
    /\ threads[i].emitted = <<Error("Unsupported file type")>>
    /\ Ended(j) /\ ParserRaises(threads[j].file)
    /\ threads[j].emitted[1].signal = "error"

TabWorkersRunning == {i \in 1..Len(threads) : threads[i].by_tab /\ threads[i].pc = "running"}

\* C12: of the workers one Bank Feeds tab has started, at most one is
\* running at any time.
C12_OneWorkerPerTab == Cardinality(TabWorkersRunning) <= 1

\* ------------------------------------------------------------------------
\* Properties: the raw feed engine (SpecEngine)
\* ------------------------------------------------------------------------
SupportedDate(cell) == try_formats(strip(cell), engine_fmts, 1).ok

NumericAmount(cell) == Decimal(strip(replace(cell, ",", <<>>))).ok

RowsToStore(file) ==
  SelectSeq(file.rows, LAMBDA r : SupportedDate(r.Date) /\ NumericAmount(r.Amount))

CalledWithPathOnly ==
  engine_out.called /\ engine_out.date_format = NoFormat /\ engine_out.file.header

LastStored(n) == SubSeq(raw_bank_feeds, Len(raw_bank_feeds) - n + 1, Len(raw_bank_feeds))

\* C20: import_csv_to_raw called with a path only does not raise, returns
\* as count the number of data rows with a date in a supported format and a
\* numeric amount, returns a preview of that length, and has stored those
\* rows, in order, with posted = 0.
C20_StoresEverySupportedRow ==
  CalledWithPathOnly =>
    /\ ~engine_out.raised
    /\ engine_out.count = Len(RowsToStore(engine_out.file))
    /\ Len(engine_out.preview) = engine_out.count
    /\ Len(raw_bank_feeds) >= engine_out.count
    /\ \A i \in 1..engine_out.count :
         /\ LastStored(engine_out.count)[i].posted = 0
         /\ LastStored(engine_out.count)[i].row = engine_out.preview[i]


\* ------------------------------------------------------------------------
\* Properties: statement lines, the undo stack and the audit trail (Spec)
\* ------------------------------------------------------------------------
IsMatched(line) == line.matched_entry_id # NoId

\* The step leaves statement line sid in the table, matched as it was.
LineKept(sid) ==
  /\ sid \in DOMAIN bank_statement_lines'
  /\ bank_statement_lines'[sid].matched_entry_id = bank_statement_lines[sid].matched_entry_id

\* The step is the Undo of the match that inserted statement line sid.
UndoOfMatchOf(sid) ==
  /\ bank_undo # <<>>
  /\ TopUndo(bank_undo).action = "match"
  /\ TopUndo(bank_undo).sid = IdOf(sid)
  /\ dialog' = "Last match undone"

\* The step is a match the user confirmed.
ConfirmedMatch == dialog' \in {"Matches applied", "Confirmed"}

\* An unmatched line stays in the table, and is matched only by a confirmed match.
UnmatchedStep(sid) ==
  /\ sid \in DOMAIN bank_statement_lines'
  /\ IsMatched(bank_statement_lines'[sid]) => ConfirmedMatch

C13_SetOnlyByConfirmedMatch ==
  [][\A sid \in DOMAIN bank_statement_lines :
       ~IsMatched(bank_statement_lines[sid]) => UnmatchedStep(sid)]_vars

C13_MatchedLineKeepsItsEntry ==
  [][\A sid \in DOMAIN bank_statement_lines :
       (IsMatched(bank_statement_lines[sid]) /\ sid \in DOMAIN bank_statement_lines')
         => LineKept(sid)]_vars

\* C13: a statement line is matched only by a confirmed match, keeps the
\* ledger entry it is matched to, and leaves the table or loses its match in
\* no step other than the Undo of its own match.
C13_LineLeavesOnlyByOwnUndo ==
  [][\A sid \in DOMAIN bank_statement_lines :
       IF IsMatched(bank_statement_lines[sid])
         THEN LineKept(sid) \/ UndoOfMatchOf(sid)
         ELSE UnmatchedStep(sid)]_vars

UndoDialogs ==
  {"Last inserted cashbook entry removed", "Last edit reverted", "Unknown undo action",
   "Last match undone", "Last action not a match, cannot undo here"}

\* The step is an Undo that found a recorded action.
UndoPerformed == dialog' \in UndoDialogs

\* The step records an action on top of the recorded ones.
RecordedOnTop ==
  /\ Len(bank_undo') = Len(bank_undo) + 1
  /\ SubSeq(bank_undo', 1, Len(bank_undo)) = bank_undo

\* The step removes the most recent record and leaves the earlier ones.
TopRemoved ==
  /\ bank_undo # <<>>
  /\ Len(bank_undo') = Len(bank_undo) - 1
  /\ SubSeq(bank_undo, 1, Len(bank_undo')) = bank_undo'

MatchRecordsKept ==
  /\ Len(reconciliation_matches') >= Len(reconciliation_matches)
  /\ SubSeq(reconciliation_matches', 1, Len(reconciliation_matches)) = reconciliation_matches

\* C15: reconciliation_matches is append-only: no step of any handler (the
\* undo of a match and the reconcile dialog included) deletes or modifies a
\* MatchRecord once it has been written.
C15_MatchesAppendOnly == [][MatchRecordsKept]_vars

\* A match has been undone, its statement lines are deleted, and the
\* MatchRecord written for one of those lines is still on file.
C15_Witness ==
  /\ dialog = "Last match undone"
  /\ undone.sids # {}
  /\ \E k \in 1..Len(reconciliation_matches) :
       reconciliation_matches[k].statement_line_id \in undone.sids

\* The step is an undo request whose handler does not handle the most
\* recent recorded action.
UndoRefused ==
  dialog' \in {"Unknown undo action", "Last action not a match, cannot undo here"}

\* C24: an undo request that cannot handle the most recent recorded action
\* leaves the undo stack and the ledger data unchanged, so the action is
\* still on top of the stack for the operation that handles it.
C24_RefusedUndoKeepsStack ==
  [][UndoRefused => UNCHANGED <<bank_undo, cash_book, bank_statement_lines,
                                reconciliation_matches>>]_vars

\* The ledger data are left alone by a refused undo.
C24_RefusedUndoKeepsLedger ==
  [][UndoRefused => UNCHANGED <<cash_book, bank_statement_lines,
                                reconciliation_matches>>]_vars

\* The step is an Unreconcile Selected the user confirmed.
UnreconcileConfirmed ==
  dialog' \in {"Done: entries updated", "Database error: unreconcile"}

\* C29 (the error path): an Unreconcile Selected that reports a database
\* error leaves every reconciled flag as it was.
C29_ErrorLeavesFlags ==
  [][dialog' = "Database error: unreconcile" => UNCHANGED recon_tables]_vars

\* C29: Unreconcile Selected, once confirmed on the company database, ends
\* without an error and with reconciled = 0 on every entry the dialog lists.
C29_UnreconcileClearsFlags ==
  [][UnreconcileConfirmed =>
       /\ dialog' = "Done: entries updated"
       /\ DOMAIN cash_book' = DOMAIN cash_book
       /\ \A i \in OpenEntries(cash_book) : cash_book'[i].reconciled = 0]_vars

\* ------------------------------------------------------------------------
\* Properties: one auto_match batch (SpecMatch)
\* ------------------------------------------------------------------------
\* The statement lines matched to cash-book entry cid.
LinesMatchedTo(cid) ==
  {i \in DOMAIN bank_statement_lines : bank_statement_lines[i].matched_entry_id = IdOf(cid)}

\* C22: the proposals of one auto_match batch name each ledger entry at most
\* once, and after the batch is applied no cash_book entry is the
\* matched_entry_id of two statement lines.
C22_OneLinePerEntry ==
  /\ \A i, j \in 1..Len(stmt_matches) :
       stmt_matches[i].cid = stmt_matches[j].cid => i = j
  /\ dialog = "Matches applied" =>
       \A cid \in DOMAIN cash_book : Cardinality(LinesMatchedTo(cid)) <= 1

\* ------------------------------------------------------------------------
\* Properties: Match Selected (Spec)
\* ------------------------------------------------------------------------
\* The step is a Match Selected that matched.
MatchedStep == dialog' = "Matched"

\* C23: the cash_book entry Match Selected marks reconciled and stores as
\* matched_entry_id of the new statement line is the entry of the ledger row
\* the user selected.
C23_MatchesSelectedRow ==
  [][MatchedStep =>
       /\ TopUndo(bank_undo').cid = TopUndo(bank_undo').selected[1]
       /\ cash_book'[TopUndo(bank_undo').selected[1]].reconciled = 1
       /\ bank_statement_lines'[TopUndo(bank_undo').sid[1]].matched_entry_id
            = TopUndo(bank_undo').selected]_vars

\* ------------------------------------------------------------------------
\* Properties: edit and Undo Last on one entry (SpecEntry)
\* ------------------------------------------------------------------------
\* The step is an Undo Last that reverted an edit.
EditReverted == dialog' = "Last edit reverted"

\* The columns of the entry before the edit on top of the undo stack.
BeforeLastEdit == edit_undo[Len(edit_undo)].before

\* C27: Undo Last after an edit restores the date, narration, reference,
\* debit and credit of the entry to exactly the values they had before the
\* edit, empty and NULL ones included.
C27_UndoRestoresEdit == [][EditReverted => entry' = BeforeLastEdit]_vars

\* The same for an entry whose texts do not contain '|||' and whose amounts
\* are not NULL.
PlainRow(row) ==
  /\ BarsAt(row.narration.text) = {} /\ BarsAt(row.reference.text) = {}
  /\ row.debit.type = "real" /\ row.credit.type = "real"

C27_UndoRestoresPlainEdit ==
  [][(EditReverted /\ PlainRow(BeforeLastEdit)) => entry' = BeforeLastEdit]_vars

\* ------------------------------------------------------------------------
\* Properties: the cash-book tab (SpecCashBook)
\* ------------------------------------------------------------------------
OneSided(row) ==
  /\ row.debit >= 0
  /\ row.credit >= 0
  /\ (row.debit # 0) # (row.credit # 0)

\* C21: after any sequence of manual inserts, edits, statement imports and
\* undos, every cash_book entry has debit >= 0, credit >= 0 and exactly one
\* of debit and credit non-zero.
C21_OneSidedEntries ==
  \A cid \in DOMAIN cash_book : OneSided(cash_book[cid])

\* The preview's rows are all in the transactions table already.
AllStored ==
  \A i \in 1..Len(import_preview) :
    is_duplicate_transaction(transactions, import_preview[i].date,
                             import_preview[i].description)

PostedStep == dialog' = "Imported to transactions and cashbook"

\* C25: Post to Transactions runs the duplicate filter on each row before
\* inserting it: posting rows that are all in the transactions table
\* already adds no transactions row.
C25_RepostAddsNothing ==
  [][(PostedStep /\ AllStored) => transactions' = transactions]_vars

\* ------------------------------------------------------------------------
\* Properties: auto_match and the window's account (SpecAccounts)
\* ------------------------------------------------------------------------
OfWindowAccount(cid) == cash_book[cid].account = WindowAccount

\* C26: Auto Match run from the reconciliation window of one bank account
\* proposes and reconciles only cash_book entries of that account: every
\* proposal names an entry of the account, and an entry of another account
\* is never reconciled.
C26_OnlyOwnAccount ==
  /\ \A k \in 1..Len(stmt_matches) : OfWindowAccount(stmt_matches[k].cid)
  /\ \A cid \in DOMAIN cash_book : cash_book[cid].reconciled = 1 => OfWindowAccount(cid)

\* ------------------------------------------------------------------------
\* Properties: journal postings (SpecJournal)
\* ------------------------------------------------------------------------
StoredLines(journal_id) ==
  SelectSeq(journal_lines, LAMBDA row : row.journal_id = journal_id)

\* Every stored entry has equal debit and credit totals to two decimals.
StoredBalanced ==
  /\ \A j \in 1..Len(journal_entries) :
       round2(debit_total(StoredLines(j))) = round2(credit_total(StoredLines(j)))
  /\ \A h \in 1..Len(journal_headers) :
       round2(journal_headers[h].total_debits) = round2(journal_headers[h].total_credits)

Unbalanced(call) == round2(call.debits) # round2(call.credits)

\* C28: a posting whose debit and credit totals differ to two decimals
\* raises ValueError and writes no row, a posting that writes rows has equal
\* totals to two decimals, and every stored journal entry is balanced.
C28_OnlyBalancedPosted ==
  [][/\ Unbalanced(posted') =>
          (posted'.raised = "ValueError" /\ UNCHANGED journal_tables)
     /\ journal_tables' # journal_tables => ~Unbalanced(posted')
     /\ StoredBalanced']_vars

\* An entry whose totals differ by less than a cent is stored, and the last
\* posting was refused as unbalanced.
C28_Witness ==
  /\ posted.raised = "ValueError"
  /\ Unbalanced(posted)
  /\ \E j \in 1..Len(journal_entries) :
       debit_total(StoredLines(j)) # credit_total(StoredLines(j))

\* ------------------------------------------------------------------------
\* Properties: the scan of parse_pdf (SpecScan)
\* ------------------------------------------------------------------------
\* Lines are counted from 0, as i and j are.
ScanLines == 0..(Len(scan.lines) - 1)

IsDateAnchor(k) == DateSearch[scan.lines[k + 1]].ok

ContainsAmount(k) == AmountSearch[scan.lines[k + 1]].ok

InBlock(k, b) == b.first <= k /\ k <= b.j

\* The block of transaction n starts at a date-anchor line and ends at the
\* first later line that contains an amount; when no later line does, it
\* runs to the end of the text and its transaction has amount 0.
BlockAsStated(n) ==
  LET b == scan.blocks[n]
  IN  /\ IsDateAnchor(b.first)
      /\ b.first < b.j
      /\ \A k \in (b.first + 1)..(b.j - 1) : k \in ScanLines /\ ~ContainsAmount(k)
      /\ IF b.j \in ScanLines THEN ContainsAmount(b.j)
         ELSE b.j = Len(scan.lines) /\ scan.transactions[n].amount = Zero

BlocksAsStated ==
  /\ Len(scan.transactions) = Len(scan.blocks)
  /\ \A n \in 1..Len(scan.blocks) : BlockAsStated(n)
  /\ \A n \in 1..(Len(scan.blocks) - 1) : scan.blocks[n].j < scan.blocks[n + 1].first
  /\ \A k \in ScanLines :
       IsDateAnchor(k) => \E n \in 1..Len(scan.blocks) : InBlock(k, scan.blocks[n])

\* C30: the scan of the lines ends, and when it has ended there is one
\* transaction per block: a block starts at a date-anchor line and runs up
\* to and including the next later line that contains an amount, no line is
\* in two blocks, every date-anchor line is in a block, and a block with no
\* later amount line runs to the end of the text and has amount 0.
C30_ScanEndsWithBlocks ==
  (scan.pc = "outer") ~> (scan.pc = "done" /\ BlocksAsStated)

\* A scan has ended with two blocks: one closed by an amount line, one that
\* ran to the end of the text.
C30_Witness ==
  /\ scan.pc = "done"
  /\ Len(scan.blocks) = 2
  /\ scan.blocks[1].j \in ScanLines
  /\ scan.blocks[2].j = Len(scan.lines)
  /\ scan.transactions[2].amount = Zero

====
